---- MODULE Spec2Model ----
(***************************************************************************)
(* TEM training server: the room store, the Phase-1 decision queue, the    *)
(* Phase-2 simulation loop and the gateway handlers of app_web.py and      *)
(* game_logic.py, as a state machine.                                      *)
(***************************************************************************)
EXTENDS Integers, Sequences, FiniteSets, TLC

VARIABLES
    rooms,        \* app_web.rooms: room id -> room state dict
    room_order,   \* insertion order of the keys of rooms (dict iteration order)
    subscribed,   \* socket.io room membership: set of <<room, sid>>
    closed,       \* session handles whose connection has ended
    AI_ENABLED,   \* config.AI_ENABLED, fixed at start-up
    ai_tasks,     \* room id -> in-flight on_pm_verify_request coroutines: the
                  \* pf_decision_data each was started with, in start order
    sim,          \* room id -> locals of the room's run_sim_loop task, with the alert
                  \* threads it started and where each of them stands
    out,          \* messages emitted by the handler that ran last
    ai_pf_running, \* room id -> an on_phase1_start coroutine of an AI PF is in flight
    tts_threads,  \* the run_in_thread threads of submit_tts_request still synthesising
    tts_audio_queue, \* app_web._tts_audio_queue
    hist          \* history of accepted submissions, verifications, prompts, credits,
                  \* the score deltas written to the room's log file, mission_complete

vars == <<rooms, room_order, subscribed, closed, AI_ENABLED, ai_tasks, sim, out, hist,
          ai_pf_running, tts_threads, tts_audio_queue>>

-----------------------------------------------------------------------------
(* Bounds of the exploration *)

MaxSubmits == 3
MaxScored == 1
MaxTickGap == 1
MaxTts == 3
MaxTasks == 2

RoomIds == {"r1"}
Sids == {"s1", "s2", "s3"}
Usernames == {"u1"}
Roles == {"PF", "PM"}
Modes == {"dual_player", "single_player"}

-----------------------------------------------------------------------------
(* Static data *)

PHASE1_THREATS ==
    [k \in {"24015G25KT", "Landing_Light_U/S", "Recovering_from_Cold"} |->
        [options |->
            CASE k = "24015G25KT" ->
                   <<[id |-> "standard_procedure", correct |-> TRUE],
                     [id |-> "wait_wind", correct |-> TRUE],
                     [id |-> "ignore_wind", correct |-> FALSE]>>
              [] k = "Landing_Light_U/S" ->
                   <<[id |-> "check_mel", correct |-> TRUE],
                     [id |-> "daylight_ok", correct |-> FALSE],
                     [id |-> "defer_flight", correct |-> TRUE]>>
              [] OTHER ->
                   <<[id |-> "imsafe_check", correct |-> TRUE],
                     [id |-> "simple_flight", correct |-> FALSE],
                     [id |-> "monitor_condition", correct |-> TRUE]>>,
         scores |-> [pf_correct_pm_approve |-> 15,
                     pf_correct_pm_reject |-> -5,
                     pf_wrong_pm_approve |-> -20,
                     pf_wrong_pm_reject |-> 5]]]

MULTI_EVENT_SCENARIOS ==
    [s \in {"routine_flight", "critical_situation", "winter_ops"} |->
        CASE s = "routine_flight" ->
               [duration |-> 180,
                acceptable_qrh |-> {"fuel_imbalance", "vacuum_failure"},
                events |->
                  <<[id |-> "fuel_imbalance", precursor_start |-> 20, alert_start |-> 35,
                     event_end |-> 60, gauge |-> "fuel_qty", pattern |-> "asymmetric",
                     alert_type |-> "caution", detection_score |-> 20, reaction_score |-> 5],
                    [id |-> "vacuum_failure", precursor_start |-> 100, alert_start |-> 115,
                     event_end |-> 150, gauge |-> "vacuum", pattern |-> "gradual_drop",
                     alert_type |-> "warning", detection_score |-> 20, reaction_score |-> 5]>>]
          [] s = "critical_situation" ->
               [duration |-> 90,
                acceptable_qrh |-> {"low_oil_pressure"},
                events |->
                  <<[id |-> "oil_pressure_loss", precursor_start |-> 15, alert_start |-> 30,
                     event_end |-> 80, gauge |-> "oil_p", pattern |-> "fluctuate_down",
                     alert_type |-> "failure", detection_score |-> 25, reaction_score |-> 5]>>]
          [] OTHER ->
               [duration |-> 180,
                acceptable_qrh |-> {"carburetor_icing", "alternator_failure"},
                events |->
                  <<[id |-> "carb_ice", precursor_start |-> 25, alert_start |-> 40,
                     event_end |-> 70, gauge |-> "rpm", pattern |-> "gradual_drop",
                     alert_type |-> "caution", detection_score |-> 20, reaction_score |-> 5],
                    [id |-> "alternator_failure", precursor_start |-> 105, alert_start |-> 120,
                     event_end |-> 160, gauge |-> "ammeter", pattern |-> "discharge",
                     alert_type |-> "warning", detection_score |-> 20, reaction_score |-> 5]>>]]

GAUGE_CONFIGS == {"spd", "alt", "oil_p", "rpm", "fuel_qty", "vacuum", "ammeter"}

\* the quiz of SCENARIO_1: question id -> its option ids in order, with the correct flag
EMERGENCY_QUIZ ==
    [q \in {"engine_failure_turn", "fire_memory_item", "electrical_fire"} |->
        <<[id |-> "a", correct |-> FALSE], [id |-> "b", correct |-> TRUE],
          [id |-> "c", correct |-> FALSE], [id |-> "d", correct |-> FALSE]>>]

\* checklist key -> len(items)
QRH_LIBRARY ==
    [k \in {"low_oil_pressure", "engine_fire", "electrical_fire", "carburetor_icing",
            "fuel_imbalance", "vacuum_failure", "alternator_failure"} |->
        CASE k = "low_oil_pressure" -> 3
          [] k \in {"engine_fire", "alternator_failure"} -> 5
          [] OTHER -> 4]

-----------------------------------------------------------------------------
(* Helpers *)

Range(f) == {f[x] : x \in DOMAIN f}

\* Python's None in the slot of pending_decision
NoDecision == [keyword |-> "None", option_id |-> "None", is_correct |-> FALSE,
               pf_username |-> "None"]

NoUsers == [s \in {} |-> [username |-> "", role |-> "", is_ai |-> FALSE]]

NoLoop == [elapsed |-> 0, event_alerted |-> {}, event_ended_notified |-> {}, done |-> FALSE,
           threads |-> [e \in {} |-> [pc |-> "", qrh_key |-> ""]]]

Msg(ev, scope, to, arg) == [ev |-> ev, scope |-> scope, to |-> to, arg |-> arg]

\* DualProcessAIAgent.fake_sid
FakeSid(room, role) == "AI_" \o room \o "_" \o role

\* d[k] = v on a dict, adding the key when absent
Put(d, k, v) == [x \in (DOMAIN d) \cup {k} |-> IF x = k THEN v ELSE d[x]]

\* del d[k]
Del(d, k) == [x \in (DOMAIN d) \ {k} |-> d[x]]

\* the dict created for a room id that is not yet in rooms
NewRoom ==
    [users |-> NoUsers,
     users_order |-> <<>>,
     score |-> 0,
     sim_active |-> FALSE,
     active_checklist_len |-> 0,
     checked_items |-> {},
     current_qrh |-> "None",
     ready_for_next |-> {},
     current_scenario |-> "None",
     current_phase |-> "waiting",
     phase1_threats |-> [k \in {} |-> [pf_decision |-> "", pf_correct |-> FALSE,
                                       pm_approved |-> FALSE, result |-> "",
                                       score_change |-> 0]],
     phase1_quiz_results |-> <<>>,
     pending_decision |-> NoDecision,
     pending_decisions_queue |-> <<>>,
     monitored_gauges |-> {},
     event_detections |-> [e \in {} |-> [detected_at |-> "", timestamp |-> 0]],
     gauge_states |-> [g \in {} |-> ""],
     used_qrh |-> {},
     mode |-> "dual_player",
     ai_enabled |-> FALSE,
     ai_agent |-> "None",
     human_sid |-> "None"]

NoHist == [submitted |-> <<>>, verified |-> <<>>, prompts |-> <<>>,
           credits |-> <<>>, prec_seen |-> {}, alert_seen |-> [e \in {} |-> 0],
           log_sum |-> 0, log_n |-> 0, missions |-> <<>>, ai_identified |-> {},
           tts_requests |-> <<>>, tts_completed |-> <<>>, tts_sent |-> <<>>]

RECURSIVE SumSeq(_)
SumSeq(q) == IF q = <<>> THEN 0 ELSE Head(q) + SumSeq(Tail(q))

\* the log file of the room after log_action wrote records carrying the score
\* deltas of log (the score_change / score_gain of their details), in order
Logged(h, log) == [h EXCEPT !.log_sum = @ + SumSeq(log), !.log_n = @ + Len(log)]

Init ==
    /\ rooms = [r \in {} |-> NewRoom]
    /\ room_order = <<>>
    /\ subscribed = {}
    /\ closed = {}
    /\ AI_ENABLED \in BOOLEAN
    /\ ai_tasks = [r \in RoomIds |-> <<>>]
    /\ sim = [r \in {} |-> NoLoop]
    /\ out = <<>>
    /\ hist = [r \in RoomIds |-> NoHist]
    /\ ai_pf_running = [r \in RoomIds |-> FALSE]
    /\ tts_threads = <<>>
    /\ tts_audio_queue = <<>>

-----------------------------------------------------------------------------
(* Room membership: join, disconnect *)

RemoveAt(q, i) == SubSeq(q, 1, i - 1) \o SubSeq(q, i + 1, Len(q))

SeqWithout(q, x) == SelectSeq(q, LAMBDA y : y # x)

\* rooms[room]['users'][sid] = user, keeping the dict's insertion order
AddUser(R, sid, user) ==
    [R EXCEPT !.users = Put(@, sid, user),
              !.users_order = IF sid \in DOMAIN R.users THEN @ ELSE Append(@, sid)]

\* del room_data['users'][sid]
RemoveUser(R, sid) ==
    [R EXCEPT !.users = Del(@, sid), !.users_order = SeqWithout(@, sid)]

\* the part of on_join after the mode branches: user_joined log,
\* user_count_update, and start of phase 1 when the room holds 2 users
JoinTail(R, room) ==
    IF Cardinality(DOMAIN R.users) = 2
    THEN [R |-> [R EXCEPT !.current_phase = "phase1"],
          out |-> <<Msg("user_count_update", "room", room, ""),
                    Msg("start_phase_1", "room", room, "")>>]
    ELSE [R |-> R, out |-> <<Msg("user_count_update", "room", room, "")>>]

\* the single_player branch of on_join
JoinSinglePlayer(R, room, sid, username, role) ==
    LET ai_role == IF role = "PF" THEN "PM" ELSE "PF"
        R1 == [R EXCEPT !.mode = "single_player", !.ai_enabled = TRUE,
                        !.human_sid = sid, !.ai_agent = ai_role]
        R2 == AddUser(R1, sid, [username |-> username, role |-> role, is_ai |-> FALSE])
        R3 == AddUser(R2, FakeSid(room, ai_role),
                      [username |-> "AI " \o ai_role, role |-> ai_role, is_ai |-> TRUE])
    IN  [R |-> [R3 EXCEPT !.current_phase = "phase1"],
         out |-> <<Msg("start_phase_1", "room", room, ""),
                   Msg("user_count_update", "room", room, "")>>]

\* the room-full test of the dual-player branch of on_join
RoomIsFull(R) == Cardinality(DOMAIN R.users) >= 2

on_join(room, sid, username, role, mode) ==
    /\ sid \notin closed
    /\ LET existed == room \in DOMAIN rooms
           R0 == IF existed THEN rooms[room] ELSE NewRoom
           order == IF existed THEN room_order ELSE Append(room_order, room)
       IN  /\ subscribed' = subscribed \cup {<<room, sid>>}
           /\ room_order' = order
           /\ IF mode = "single_player" /\ AI_ENABLED
              THEN LET a == JoinSinglePlayer(R0, room, sid, username, role)
                       b == JoinTail(a.R, room)
                   IN  /\ rooms' = Put(rooms, room, b.R)
                       /\ out' = a.out \o b.out
                       /\ ai_pf_running' = [ai_pf_running EXCEPT ![room] =
                                               IF a.R.ai_agent = "PF" THEN TRUE ELSE @]
              ELSE IF RoomIsFull(R0)
                   THEN /\ rooms' = Put(rooms, room, R0)
                        /\ out' = <<Msg("room_full", "sid", sid, room)>>
                        /\ UNCHANGED ai_pf_running
                   ELSE LET R1 == AddUser(R0, sid, [username |-> username, role |-> role,
                                                    is_ai |-> FALSE])
                            b == JoinTail(R1, room)
                        IN  /\ rooms' = Put(rooms, room, b.R)
                            /\ out' = b.out
                            /\ UNCHANGED ai_pf_running
    /\ UNCHANGED <<closed, AI_ENABLED, ai_tasks, sim, hist, tts_threads, tts_audio_queue>>

RECURSIVE FirstRoomOf(_, _)
\* the first room, in dict order, whose users hold the sid ("None" if none)
FirstRoomOf(order, sid) ==
    IF order = <<>> THEN "None"
    ELSE IF sid \in DOMAIN rooms[Head(order)].users THEN Head(order)
    ELSE FirstRoomOf(Tail(order), sid)

on_disconnect(sid) ==
    /\ sid \notin closed
    /\ closed' = closed \cup {sid}
    /\ subscribed' = {p \in subscribed : p[2] # sid}
    /\ LET room_id == FirstRoomOf(room_order, sid)
       IN  IF room_id = "None"
           THEN /\ rooms' = rooms
                /\ out' = <<>>
           ELSE /\ rooms' = [rooms EXCEPT ![room_id] = RemoveUser(@, sid)]
                /\ out' = <<Msg("user_left", "room", room_id,
                                rooms[room_id].users[sid].role)>>
    /\ UNCHANGED <<room_order, AI_ENABLED, ai_tasks, sim, hist,
                   ai_pf_running, tts_threads, tts_audio_queue>>

-----------------------------------------------------------------------------
(* Phase 1: the decision queue *)

\* a lookup that finds an option whatever id was sent
OptionsWithId_Any(keyword, option_id) == DOMAIN PHASE1_THREATS[keyword].options

\* next((opt for opt in options if opt['id'] == option_id), None), as a set
OptionsWithId(keyword, option_id) ==
    {i \in DOMAIN PHASE1_THREATS[keyword].options :
        PHASE1_THREATS[keyword].options[i].id = option_id}

SelectedOption(keyword, option_id) ==
    LET hits == OptionsWithId(keyword, option_id)
        first == CHOOSE i \in hits : \A j \in hits : i <= j
    IN  PHASE1_THREATS[keyword].options[first]

RECURSIVE FirstHumanPM(_, _)
\* the first user in dict order with role PM that is not an AI ("None" if none)
FirstHumanPM(R, order) ==
    IF order = <<>> THEN "None"
    ELSE IF R.users[Head(order)].role = "PM" /\ ~R.users[Head(order)].is_ai
         THEN Head(order)
         ELSE FirstHumanPM(R, Tail(order))

\* the queue served from its tail instead of its head
ProcessNextDecisionInQueue_Lifo(R) ==
    IF R.pending_decisions_queue = <<>>
    THEN [R |-> R, out |-> <<>>]
    ELSE LET n == Len(R.pending_decisions_queue)
             decision_data == R.pending_decisions_queue[n]
             pm == FirstHumanPM(R, R.users_order)
         IN  [R |-> [R EXCEPT !.pending_decisions_queue = SubSeq(@, 1, n - 1),
                              !.pending_decision = decision_data],
              out |-> IF pm = "None" THEN <<>>
                      ELSE <<Msg("show_pm_verify_panel", "sid", pm, decision_data.keyword)>>]

\* GameLogic._process_next_decision_in_queue: result is the room and the
\* verify prompts emitted
ProcessNextDecisionInQueue(R) ==
    IF R.pending_decisions_queue = <<>>
    THEN [R |-> R, out |-> <<>>]
    ELSE LET decision_data == Head(R.pending_decisions_queue)
             pm == FirstHumanPM(R, R.users_order)
         IN  [R |-> [R EXCEPT !.pending_decisions_queue = Tail(@),
                              !.pending_decision = decision_data],
              out |-> IF pm = "None" THEN <<>>
                      ELSE <<Msg("show_pm_verify_panel", "sid", pm, decision_data.keyword)>>]

\* no promotion at submission
PromoteIfIdle_Never(R) == [R |-> R, out |-> <<>>]

\* a promotion at every submission, whether a decision is pending or not
PromoteIfIdle_Always(R) == ProcessNextDecisionInQueue(R)

\* the promotion step of pf_submit_decision after the append
PromoteIfIdle(R) ==
    IF R.pending_decision = NoDecision
    THEN ProcessNextDecisionInQueue(R)
    ELSE [R |-> R, out |-> <<>>]

\* GameLogic.pf_submit_decision for a known keyword; ok is its return value
PfSubmitDecision(R, keyword, option_id, actor) ==
    IF actor.role # "PF" THEN [ok |-> FALSE, R |-> R, out |-> <<>>]
    ELSE IF OptionsWithId(keyword, option_id) = {} THEN [ok |-> FALSE, R |-> R, out |-> <<>>]
    ELSE LET opt == SelectedOption(keyword, option_id)
             decision_data == [keyword |-> keyword, option_id |-> option_id,
                               is_correct |-> opt.correct, pf_username |-> actor.username]
             R1 == [R EXCEPT !.pending_decisions_queue = Append(@, decision_data)]
             p == PromoteIfIdle(R1)
         IN  [ok |-> TRUE, R |-> p.R,
              out |-> p.out \o
                      (IF ~actor.is_ai /\ actor.sid # "None"
                       THEN <<Msg("waiting_pm_verify", "sid", actor.sid, keyword)>>
                       ELSE <<>>)]

\* the 2x2 scoring with the two reject cells exchanged
VerifyOutcome_Swapped(scores, pf_is_correct, approved) ==
    IF pf_is_correct /\ approved
    THEN [score_change |-> scores.pf_correct_pm_approve, result |-> "success", color |-> "green"]
    ELSE IF pf_is_correct /\ ~approved
    THEN [score_change |-> scores.pf_wrong_pm_reject, result |-> "pm_error", color |-> "orange"]
    ELSE IF ~pf_is_correct /\ approved
    THEN [score_change |-> scores.pf_wrong_pm_approve, result |-> "critical_error", color |-> "red"]
    ELSE [score_change |-> scores.pf_correct_pm_reject, result |-> "pm_catch", color |-> "yellow"]

\* the 2x2 scoring of pm_verify_decision
VerifyOutcome(scores, pf_is_correct, approved) ==
    IF pf_is_correct /\ approved
    THEN [score_change |-> scores.pf_correct_pm_approve, result |-> "success", color |-> "green"]
    ELSE IF pf_is_correct /\ ~approved
    THEN [score_change |-> scores.pf_correct_pm_reject, result |-> "pm_error", color |-> "orange"]
    ELSE IF ~pf_is_correct /\ approved
    THEN [score_change |-> scores.pf_wrong_pm_approve, result |-> "critical_error", color |-> "red"]
    ELSE [score_change |-> scores.pf_wrong_pm_reject, result |-> "pm_catch", color |-> "yellow"]

\* GameLogic.pm_verify_decision; ok is its return value, log the score_change
\* of the pm_verify_decision log record
PmVerifyDecision(R, room, approved, actor) ==
    IF actor.role # "PM" THEN [ok |-> FALSE, R |-> R, out |-> <<>>, log |-> <<>>]
    ELSE IF R.pending_decision = NoDecision
    THEN [ok |-> FALSE, R |-> R, out |-> <<>>, log |-> <<>>]
    ELSE LET pending == R.pending_decision
             keyword == pending.keyword
             o == VerifyOutcome(PHASE1_THREATS[keyword].scores, pending.is_correct, approved)
             R1 == [R EXCEPT !.score = @ + o.score_change,
                             !.phase1_threats = Put(@, keyword,
                                 [pf_decision |-> pending.option_id,
                                  pf_correct |-> pending.is_correct,
                                  pm_approved |-> approved,
                                  result |-> o.result,
                                  score_change |-> o.score_change]),
                             !.pending_decision = NoDecision]
             p == ProcessNextDecisionInQueue(R1)
         IN  [ok |-> TRUE, R |-> p.R,
              out |-> <<Msg("threat_decision_result", "room", room, o.color),
                        Msg("update_score", "room", room, "")>> \o p.out,
              log |-> <<o.score_change>>]

PromptsOf(msgs) == SelectSeq(msgs, LAMBDA m : m.ev = "show_pm_verify_panel")

\* the history kept beside the room: accepted submissions, resolved keywords, prompts
Record(h, ok_submit, ok_verify, keyword, msgs) ==
    [h EXCEPT !.submitted = IF ok_submit THEN Append(@, keyword) ELSE @,
              !.verified = IF ok_verify THEN Append(@, keyword) ELSE @,
              !.prompts = @ \o PromptsOf(msgs)]

\* pm_data, the argument of the on_pm_verify_request task handle_pf_decision starts
PmData(keyword, option_id) == [keyword |-> keyword, pf_decision |-> option_id]

\* a verify task only for a decision that went straight to the PM
SpawnsVerify_OnlyWhenIdle(R, keyword, option_id) ==
    /\ R.ai_enabled
    /\ R.ai_agent = "PM"
    /\ OptionsWithId(keyword, option_id) # {}
    /\ R.pending_decisions_queue = <<>>

\* the AI trigger of handle_pf_decision: an on_pm_verify_request task is started
\* when the room has an AI PM (selected_option['text'] raises before the start
\* when the keyword has no option with this id)
SpawnsVerify(R, keyword, option_id) ==
    /\ R.ai_enabled
    /\ R.ai_agent = "PM"
    /\ OptionsWithId(keyword, option_id) # {}

\* the socket handler handle_pf_decision
handle_pf_decision(room, sid, keyword, option_id) ==
    /\ sid \notin closed
    /\ room \in DOMAIN rooms
    /\ sid \in DOMAIN rooms[room].users
    /\ keyword \in DOMAIN PHASE1_THREATS
    /\ LET user_info == rooms[room].users[sid]
           actor == [username |-> user_info.username, role |-> user_info.role,
                     is_ai |-> FALSE, sid |-> sid]
           r == PfSubmitDecision(rooms[room], keyword, option_id, actor)
           spawn == SpawnsVerify(r.R, keyword, option_id)
       IN  /\ rooms' = [rooms EXCEPT ![room] = r.R]
           /\ out' = r.out
           /\ hist' = [hist EXCEPT ![room] = Record(@, r.ok, FALSE, keyword, r.out)]
           /\ ai_tasks' = [ai_tasks EXCEPT ![room] =
                             IF spawn THEN Append(@, PmData(keyword, option_id)) ELSE @]
    /\ UNCHANGED <<room_order, subscribed, closed, AI_ENABLED, sim,
                   ai_pf_running, tts_threads, tts_audio_queue>>

\* the socket handler handle_pm_verify
handle_pm_verify(room, sid, approved) ==
    /\ sid \notin closed
    /\ room \in DOMAIN rooms
    /\ sid \in DOMAIN rooms[room].users
    /\ LET user_info == rooms[room].users[sid]
           actor == [username |-> user_info.username, role |-> user_info.role,
                     is_ai |-> FALSE, sid |-> sid]
           r == PmVerifyDecision(rooms[room], room, approved, actor)
       IN  /\ rooms' = [rooms EXCEPT ![room] = r.R]
           /\ out' = r.out
           /\ hist' = [hist EXCEPT ![room] =
                         Logged(Record(@, FALSE, r.ok, rooms[room].pending_decision.keyword,
                                       r.out), r.log)]
    /\ UNCHANGED <<room_order, subscribed, closed, AI_ENABLED, ai_tasks, sim,
                   ai_pf_running, tts_threads, tts_audio_queue>>

\* what the call of the slow model gives: JSON recommending approve, JSON
\* recommending reject, JSON without a recommended action, text that holds no
\* JSON, or an exception
SlowResponses == {"approve", "reject", "no_action", "not_json", "error"}

\* the answers that are a failure of the call: an exception, text without JSON
FailedResponses == {"not_json", "error"}

\* parse_json_response followed by analysis.get('recommendation', {}): the
\* recommendation dict, as its 'action' entry ("None" when the key is missing)
ParseJsonResponse(response) ==
    IF response \in {"approve", "reject"} THEN [action |-> response]
    ELSE [action |-> "None"]

\* StrategyGenerator.strategize_pm_verify: the recommendation of the strategy
StrategizePmVerify(response) ==
    IF response = "error" THEN [action |-> "approve"]
    ELSE ParseJsonResponse(response)

\* an executor that rejects when the strategy names no action
ExecutePmVerify_DefaultReject(recommendation) ==
    recommendation.action = "approve"

\* ActionExecutor.execute_pm_verify: the approve parameter of the action
ExecutePmVerify(recommendation) ==
    LET action_type == IF recommendation.action = "None" THEN "approve"
                       ELSE recommendation.action
    IN  action_type = "approve"

\* DualProcessAIAgent.on_pm_verify_request reaching its call of pm_verify_decision
\* after the slow model answered
on_pm_verify_request(room, response) ==
    /\ room \in DOMAIN rooms
    /\ ai_tasks[room] # <<>>
    /\ LET actor == [username |-> "AI PM", role |-> "PM", is_ai |-> TRUE, sid |-> "None"]
           approve == ExecutePmVerify(StrategizePmVerify(response))
           r == PmVerifyDecision(rooms[room], room, approve, actor)
       IN  /\ rooms' = [rooms EXCEPT ![room] = r.R]
           /\ out' = r.out
           /\ hist' = [hist EXCEPT ![room] =
                         Logged(Record(@, FALSE, r.ok, rooms[room].pending_decision.keyword,
                                       r.out), r.log)]
    /\ \E i \in DOMAIN ai_tasks[room] :
          ai_tasks' = [ai_tasks EXCEPT ![room] = RemoveAt(@, i)]
    /\ UNCHANGED <<room_order, subscribed, closed, AI_ENABLED, sim,
                   ai_pf_running, tts_threads, tts_audio_queue>>

\* GameLogic.pf_identify_threat; ok is its return value
PfIdentifyThreat(R, keyword, actor) ==
    IF actor.role # "PF" THEN [ok |-> FALSE, out |-> <<>>]
    ELSE IF keyword \notin DOMAIN PHASE1_THREATS THEN [ok |-> FALSE, out |-> <<>>]
    ELSE IF keyword \in DOMAIN R.phase1_threats THEN [ok |-> FALSE, out |-> <<>>]
    ELSE [ok |-> TRUE,
          out |-> IF ~actor.is_ai /\ actor.sid # "None"
                  THEN <<Msg("show_pf_decision_modal", "sid", actor.sid, keyword)>>
                  ELSE <<>>]

\* the socket handler handle_pf_identify; the on_pf_decision_request task it starts
\* for an AI PF writes nothing to the room before its call of the executor
handle_pf_identify(room, sid, keyword) ==
    /\ sid \notin closed
    /\ room \in DOMAIN rooms
    /\ sid \in DOMAIN rooms[room].users
    /\ LET user_info == rooms[room].users[sid]
           actor == [username |-> user_info.username, role |-> user_info.role,
                     is_ai |-> FALSE, sid |-> sid]
           r == PfIdentifyThreat(rooms[room], keyword, actor)
       IN  out' = IF r.ok THEN r.out ELSE r.out \o <<Msg("error_msg", "sid", sid, "")>>
    /\ UNCHANGED <<rooms, room_order, subscribed, closed, AI_ENABLED, ai_tasks, sim, hist,
                   ai_pf_running, tts_threads, tts_audio_queue>>

\* list(PHASE1_THREATS.keys())
ThreatOrder == <<"24015G25KT", "Landing_Light_U/S", "Recovering_from_Cold">>

\* what the slow model recommends to the AI PF for a keyword: one of its option
\* ids, an id it does not have, or an exception / unparsable text
PfResponses ==
    [keyword \in DOMAIN PHASE1_THREATS |->
        {PHASE1_THREATS[keyword].options[i].id : i \in 1..3} \cup {"no_such_option", "error"}]

\* StrategyGenerator.strategize_pf_decision: the recommended option id
StrategizePfDecision(keyword, response) ==
    LET actual_option_ids == [i \in 1..3 |-> PHASE1_THREATS[keyword].options[i].id]
    IN  IF response = "error" THEN actual_option_ids[1]
        ELSE IF \A i \in 1..3 : actual_option_ids[i] # response THEN actual_option_ids[1]
        ELSE response

\* self.executor.execute_pf_decision(strategy): ActionExecutor defines no such
\* method (only execute_pm_verify), the attribute lookup raises AttributeError
ExecutePfDecision(recommended_option) ==
    [raised |-> TRUE, option_id |-> "None"]

\* DualProcessAIAgent._phase1_pf_identify_threats, started by on_phase1_start:
\* one iteration of its loop over the threats with the on_pf_decision_request
\* it awaits; an exception ends the coroutine (run_async_in_greenlet prints it)
phase1_pf_identify_threats(room, response) ==
    /\ room \in DOMAIN rooms
    /\ ai_pf_running[room]
    /\ LET unhandled == SelectSeq(ThreatOrder,
                                  LAMBDA k : k \notin DOMAIN rooms[room].phase1_threats)
           actor == [username |-> "AI PF", role |-> "PF", is_ai |-> TRUE, sid |-> "None"]
       IN  IF unhandled = <<>>
           THEN /\ out' = <<Msg("chat_message", "room", room, "AI PF")>>
                /\ ai_pf_running' = [ai_pf_running EXCEPT ![room] = FALSE]
                /\ UNCHANGED <<rooms, hist>>
           ELSE LET threat_keyword == Head(unhandled)
                    i == PfIdentifyThreat(rooms[room], threat_keyword, actor)
                    option == StrategizePfDecision(threat_keyword, response)
                    action == ExecutePfDecision(option)
                    r == PfSubmitDecision(rooms[room], threat_keyword, action.option_id, actor)
                    h == [hist[room] EXCEPT !.ai_identified =
                                               IF i.ok THEN @ \cup {threat_keyword} ELSE @]
                IN  /\ response \in PfResponses[threat_keyword]
                    /\ IF ~i.ok
                       THEN /\ out' = i.out
                            /\ UNCHANGED <<rooms, hist, ai_pf_running>>
                       ELSE IF action.raised
                       THEN /\ out' = i.out
                            /\ hist' = [hist EXCEPT ![room] = h]
                            /\ ai_pf_running' = [ai_pf_running EXCEPT ![room] = FALSE]
                            /\ UNCHANGED rooms
                       ELSE /\ rooms' = [rooms EXCEPT ![room] = r.R]
                            /\ out' = i.out \o r.out
                            /\ hist' = [hist EXCEPT ![room] =
                                          Record(h, r.ok, FALSE, threat_keyword, r.out)]
                            /\ UNCHANGED ai_pf_running
    /\ UNCHANGED <<room_order, subscribed, closed, AI_ENABLED, ai_tasks, sim,
                   tts_threads, tts_audio_queue>>

\* every option taken as correct
CorrectOptions_All(question_id) == DOMAIN EMERGENCY_QUIZ[question_id]

\* the options of a quiz question flagged correct, as positions
CorrectOptions(question_id) ==
    {i \in DOMAIN EMERGENCY_QUIZ[question_id] : EMERGENCY_QUIZ[question_id][i].correct}

\* GameLogic.submit_quiz_answer; ok is its return value, log the score_change
\* of the quiz_answer_submitted log record
SubmitQuizAnswer(R, room, question_id, answer, actor) ==
    IF actor.role # "PM" THEN [ok |-> FALSE, R |-> R, out |-> <<>>, log |-> <<>>]
    ELSE IF question_id \notin DOMAIN EMERGENCY_QUIZ
    THEN [ok |-> FALSE, R |-> R, out |-> <<>>, log |-> <<>>]
    ELSE LET hits == CorrectOptions(question_id)
             is_correct ==
                 IF hits = {} THEN FALSE
                 ELSE LET first == CHOOSE i \in hits : \A j \in hits : i <= j
                      IN  answer = EMERGENCY_QUIZ[question_id][first].id
             score_change == IF is_correct THEN 10 ELSE -5
         IN  [ok |-> TRUE,
              R |-> [R EXCEPT !.score = @ + score_change,
                              !.phase1_quiz_results =
                                  Append(@, [question_id |-> question_id, answer |-> answer,
                                             correct |-> is_correct,
                                             score_change |-> score_change])],
              out |-> <<Msg("quiz_answer_result", "room", room, question_id),
                        Msg("update_score", "room", room, "")>>,
              log |-> <<score_change>>]

\* the socket handler handle_quiz_answer
handle_quiz_answer(room, sid, question_id, answer) ==
    /\ sid \notin closed
    /\ room \in DOMAIN rooms
    /\ sid \in DOMAIN rooms[room].users
    /\ LET user_info == rooms[room].users[sid]
           actor == [username |-> user_info.username, role |-> user_info.role,
                     is_ai |-> FALSE, sid |-> sid]
           r == SubmitQuizAnswer(rooms[room], room, question_id, answer, actor)
       IN  /\ rooms' = [rooms EXCEPT ![room] = r.R]
           /\ out' = r.out
           /\ hist' = [hist EXCEPT ![room] = Logged(@, r.log)]
    /\ UNCHANGED <<room_order, subscribed, closed, AI_ENABLED, ai_tasks, sim,
                   ai_pf_running, tts_threads, tts_audio_queue>>

-----------------------------------------------------------------------------
(* Phase 2: readiness, scenario start, gauge tagging, the simulation loop *)

GaugeKeys == {"spd", "alt", "oil_p", "rpm", "fuel_qty_left", "fuel_qty_right",
              "vacuum", "ammeter"}

\* the gauge_states keys an event's gauge is published under
KeysOf(gauge_id) ==
    IF gauge_id = "fuel_qty" THEN {"fuel_qty_left", "fuel_qty_right"} ELSE {gauge_id}

\* fuel quantities are counted in twentieths of a gallon, the fuel burnt in one
\* second at the normal rate of 0.05 GAL/s: baseline_left = baseline_right = 25 GAL
FuelBaseline == 500

Max0(x) == IF x > 0 THEN x ELSE 0

\* the baseline refresh at the top of a tick: the fuel tanks after the normal
\* consumption of elapsed_time seconds, any other gauge near its baseline
BaselineRefresh(elapsed_time) ==
    [g \in GaugeKeys |-> IF g \in KeysOf("fuel_qty") THEN Max0(FuelBaseline - elapsed_time)
                         ELSE "baseline"]

\* generate_precursor_value: the asymmetric pattern burns the left tank at the
\* normal rate and the right tank at three times that rate, counted from the
\* start of the precursor; the other patterns give an abnormal reading
generate_precursor_value(pattern, elapsed_time) ==
    IF pattern = "asymmetric"
    THEN [left |-> Max0(FuelBaseline - elapsed_time),
          right |-> Max0(FuelBaseline - 3 * elapsed_time)]
    ELSE [value |-> "precursor"]

\* the gauge_states after the readings of an event's gauge are overwritten, in the
\* precursor band or (alert) in the alert band, where a gauge other than fuel
\* shows its failure value
Overwrite(gauge_states, event, precursor_elapsed, alert) ==
    LET precursor_value == generate_precursor_value(event.pattern, precursor_elapsed)
    IN  [g \in DOMAIN gauge_states |->
           IF g \notin KeysOf(event.gauge) THEN gauge_states[g]
           ELSE IF event.pattern # "asymmetric"
                THEN (IF alert THEN "failure" ELSE precursor_value.value)
           ELSE IF g = event.gauge \o "_left" THEN precursor_value.left
           ELSE precursor_value.right]

\* the fuel quantities of the flight_update a tick broadcasts
FlightData(R) == [fuel_qty_left |-> R.gauge_states["fuel_qty_left"],
                  fuel_qty_right |-> R.gauge_states["fuel_qty_right"]]

\* the number of ready users handle_req_phase_2 waits for
RequiredReadyCount(R) == IF R.mode = "single_player" THEN 1 ELSE 2

\* start_simulation with the scenario random.choice picked
StartSimulation(R, scenario_key) ==
    IF R.sim_active THEN R
    ELSE [R EXCEPT !.sim_active = TRUE,
                   !.current_phase = "phase2",
                   !.current_scenario = scenario_key,
                   !.gauge_states = [g \in GaugeKeys |->
                                        IF g \in KeysOf("fuel_qty") THEN FuelBaseline
                                        ELSE "baseline"]]

handle_req_phase_2(room, sid, scenario_key) ==
    /\ sid \notin closed
    /\ room \in DOMAIN rooms
    /\ sid \in DOMAIN rooms[room].users
    /\ LET R1 == [rooms[room] EXCEPT !.ready_for_next = @ \cup {sid}]
           go == Cardinality(R1.ready_for_next) >= RequiredReadyCount(R1)
           launch == go /\ ~R1.sim_active
       IN  /\ rooms' = [rooms EXCEPT ![room] = IF go THEN StartSimulation(R1, scenario_key)
                                                ELSE R1]
           /\ sim' = IF launch THEN Put(sim, room, NoLoop) ELSE sim
           /\ out' = IF launch
                     THEN <<Msg("sys_msg", "room", room, scenario_key),
                            Msg("start_phase_2", "room", room, scenario_key)>>
                     ELSE IF go THEN <<>>
                     ELSE <<Msg("sys_msg", "room", room, "waiting")>>
    /\ UNCHANGED <<room_order, subscribed, closed, AI_ENABLED, ai_tasks, hist,
                   ai_pf_running, tts_threads, tts_audio_queue>>

\* a tag that a second click takes off again
TagGauge_Toggle(gauges, gauge_id) ==
    IF gauge_id \in gauges THEN gauges \ {gauge_id} ELSE gauges \cup {gauge_id}

\* monitored_gauges.add(gauge_id)
TagGauge(gauges, gauge_id) == gauges \cup {gauge_id}

\* the socket handler handle_monitor_gauge with GameLogic.monitor_gauge
handle_monitor_gauge(room, sid, gauge_id) ==
    /\ sid \notin closed
    /\ room \in DOMAIN rooms
    /\ sid \in DOMAIN rooms[room].users
    /\ rooms' = [rooms EXCEPT ![room].monitored_gauges = TagGauge(@, gauge_id)]
    /\ out' = IF gauge_id \in GAUGE_CONFIGS
              THEN <<Msg("gauge_monitored", "room", room, gauge_id)>>
              ELSE <<>>
    /\ UNCHANGED <<room_order, subscribed, closed, AI_ENABLED, ai_tasks, sim, hist,
                   ai_pf_running, tts_threads, tts_audio_queue>>

\* a precursor detection that does not look at earlier detections
PrecursorDetects_Again(R, event) == event.gauge \in R.monitored_gauges

\* whether the precursor branch records a detection for the event on this tick
PrecursorDetects(R, event) ==
    /\ event.gauge \in R.monitored_gauges
    /\ event.id \notin DOMAIN R.event_detections

\* a reaction score granted at every alert
AlertReacts_Always(R, event) == TRUE

\* whether the alert branch grants the reaction score for the event
AlertReacts(R, event) == event.id \notin DOMAIN R.event_detections

\* the checklist on_event_alert matches to the alert message of an event
QrhKeywords(event_id) ==
    CASE event_id = "oil_pressure_loss" -> "low_oil_pressure"
      [] event_id = "carb_ice" -> "carburetor_icing"
      [] OTHER -> event_id

\* "if rooms[room]['ai_enabled']: ... if ai_agent:" the loop starts a native
\* thread that runs ai_agent.on_event_alert
StartsAlertThread(R) == R.ai_enabled /\ R.ai_agent # "None"

\* an alert that is raised on every tick of the alert band
FirstAlert_EveryTick(L, event) == TRUE

\* "if not event_alerted[event_id]": the alert of the event has not been raised yet
FirstAlert(L, event) == event.id \notin L.event_alerted

\* one pass of the body of "for event in events" at elapsed time t;
\* a is [R, L, out, credits, log]
ProcessEvent(a, room, event, t) ==
    IF event.precursor_start <= t /\ t < event.event_end
    THEN IF t < event.alert_start
         THEN LET R1 == [a.R EXCEPT !.gauge_states =
                           Overwrite(@, event, t - event.precursor_start, FALSE)]
              IN  IF PrecursorDetects(R1, event)
                  THEN [a EXCEPT
                          !.R = [R1 EXCEPT
                                   !.event_detections = Put(@, event.id,
                                       [detected_at |-> "precursor", timestamp |-> t]),
                                   !.score = @ + event.detection_score],
                          !.out = @ \o <<Msg("precursor_detected", "room", room, event.id),
                                         Msg("update_score", "room", room, "")>>,
                          !.credits = Append(@, [event |-> event.id, kind |-> "precursor",
                                                 delta |-> event.detection_score, t |-> t]),
                          !.log = Append(@, event.detection_score)]
                  ELSE [a EXCEPT !.R = R1]
         ELSE LET first == FirstAlert(a.L, event)
                  react == first /\ AlertReacts(a.R, event)
                  R1 == IF react
                        THEN [a.R EXCEPT
                                !.event_detections = Put(@, event.id,
                                    [detected_at |-> "alert", timestamp |-> t]),
                                !.score = @ + event.reaction_score]
                        ELSE a.R
                  R2 == [R1 EXCEPT !.gauge_states =
                           Overwrite(@, event, t - event.precursor_start, TRUE)]
              IN  [a EXCEPT
                     !.R = R2,
                     !.L = [@ EXCEPT !.event_alerted = @ \cup {event.id},
                                     !.threads = IF first /\ StartsAlertThread(a.R)
                                                 THEN Put(@, event.id,
                                                          [pc |-> "send_ai_message",
                                                           qrh_key |-> QrhKeywords(event.id)])
                                                 ELSE @],
                     !.out = IF first
                             THEN @ \o <<Msg("event_trigger", "room", room, event.alert_type)>>
                             ELSE @,
                     !.credits = IF react
                                 THEN Append(@, [event |-> event.id, kind |-> "alert",
                                                 delta |-> event.reaction_score, t |-> t])
                                 ELSE @,
                     !.log = IF react THEN Append(@, event.reaction_score) ELSE @]
    ELSE IF t >= event.event_end /\ event.id \notin a.L.event_ended_notified
    THEN [a EXCEPT !.L = [@ EXCEPT !.event_ended_notified = @ \cup {event.id}],
                   !.out = @ \o <<Msg("sys_msg", "room", room, event.id)>>]
    ELSE a

RECURSIVE ProcessEvents(_, _, _, _)
ProcessEvents(a, room, events, t) ==
    IF events = <<>> THEN a
    ELSE ProcessEvents(ProcessEvent(a, room, Head(events), t), room, Tail(events), t)

EventsOf(R) == MULTI_EVENT_SCENARIOS[R.current_scenario].events

\* the events whose gauge a tick at time t finds tagged inside the precursor window
SeenInPrecursor(R, t) ==
    {e.id : e \in {x \in Range(EventsOf(R)) :
        /\ x.precursor_start <= t /\ t < x.alert_start
        /\ x.gauge \in R.monitored_gauges}}

\* the events whose alert time a tick at time t has reached
SeenAlert(R, t) == {e.id : e \in {x \in Range(EventsOf(R)) : t >= x.alert_start}}

\* the time of the first tick that reached each event's alert time
FirstAlertTick(seen, R, t) ==
    [e \in (DOMAIN seen) \cup SeenAlert(R, t) |-> IF e \in DOMAIN seen THEN seen[e] ELSE t]

\* a result tag that passes a score of 40
MissionResult_AtLeast(score) == IF score >= 40 THEN "Passed" ELSE "Debrief Required"

\* the result tag of mission_complete
MissionResult(score) == IF score > 40 THEN "Passed" ELSE "Debrief Required"

\* one iteration of the while loop of run_sim_loop, at elapsed time t
SimTick(room, t) ==
    /\ room \in DOMAIN sim
    /\ room \in DOMAIN rooms
    /\ ~sim[room].done
    /\ t >= sim[room].elapsed
    /\ LET R == rooms[room]
           duration == MULTI_EVENT_SCENARIOS[R.current_scenario].duration
           h1 == [hist[room] EXCEPT !.prec_seen = @ \cup SeenInPrecursor(R, t),
                                    !.alert_seen = FirstAlertTick(@, R, t)]
       IN  IF t >= duration
           THEN /\ sim' = [sim EXCEPT ![room] = [@ EXCEPT !.elapsed = t, !.done = TRUE]]
                /\ out' = <<Msg("sys_msg", "room", room, "end"),
                            Msg("mission_complete", "room", room, MissionResult(R.score))>>
                /\ rooms' = rooms
                /\ hist' = [hist EXCEPT ![room] =
                              [h1 EXCEPT !.missions =
                                  Append(@, [score |-> R.score,
                                             result |-> MissionResult(R.score)])]]
           ELSE LET R0 == [R EXCEPT !.gauge_states = BaselineRefresh(t)]
                    a == ProcessEvents([R |-> R0, L |-> sim[room], out |-> <<>>,
                                        credits |-> <<>>, log |-> <<>>],
                                       room, EventsOf(R), t)
                IN  /\ rooms' = [rooms EXCEPT ![room] = a.R]
                    /\ sim' = [sim EXCEPT ![room] = [a.L EXCEPT !.elapsed = t]]
                    /\ out' = a.out \o <<Msg("flight_update", "room", room, "")>>
                    /\ hist' = [hist EXCEPT ![room] =
                                  Logged([h1 EXCEPT !.credits = @ \o a.credits], a.log)]
    /\ UNCHANGED <<room_order, subscribed, closed, AI_ENABLED, ai_tasks,
                   ai_pf_running, tts_threads, tts_audio_queue>>

-----------------------------------------------------------------------------
(* Phase 3: checklist selection and items *)

\* a duplicate test that never rejects
AlreadyUsed_Never(R, qrh_key) == FALSE

\* the duplicate test of select_qrh
AlreadyUsed(R, qrh_key) == qrh_key \in R.used_qrh

\* the score change of select_qrh under the scenario of the room
QrhScoreChange(scenario_key, qrh_key) ==
    IF qrh_key \in MULTI_EVENT_SCENARIOS[scenario_key].acceptable_qrh THEN 20 ELSE -20

\* a log record that carries +20 whatever was applied
QrhLoggedChange_Unsigned(is_correct) == 20

\* the score_change written to the select_qrh log record
QrhLoggedChange(is_correct) == IF is_correct THEN 20 ELSE -20

\* GameLogic.select_qrh after its duplicate test
SelectQrhBody(R, room, qrh_key, actor) ==
    LET R1 == [R EXCEPT !.current_phase = "phase3",
                        !.used_qrh = @ \cup {qrh_key},
                        !.current_qrh = qrh_key,
                        !.checked_items = {}]
    IN  IF qrh_key \notin DOMAIN QRH_LIBRARY
        THEN [ok |-> FALSE, raised |-> TRUE, R |-> R1, out |-> <<>>, log |-> <<>>]
        ELSE LET R2 == [R1 EXCEPT !.active_checklist_len = QRH_LIBRARY[qrh_key]]
             IN  IF R2.current_scenario = "None"
                 THEN [ok |-> FALSE, raised |-> TRUE, R |-> R2, out |-> <<>>,
                       log |-> <<>>]
                 ELSE LET is_correct ==
                              qrh_key \in MULTI_EVENT_SCENARIOS[R2.current_scenario]
                                             .acceptable_qrh
                          d == QrhScoreChange(R2.current_scenario, qrh_key)
                      IN  [ok |-> TRUE, raised |-> FALSE,
                           R |-> [R2 EXCEPT !.score = @ + d],
                           out |-> <<Msg("show_checklist", "room", room, qrh_key),
                                     Msg("update_score", "room", room, "")>>,
                           log |-> <<QrhLoggedChange(is_correct)>>]

\* GameLogic.select_qrh; ok is its return value, raised tells that it ended in an
\* exception (QRH_LIBRARY.get gave None, or current_scenario is None), R is the
\* room as the call left it, log the score_change of the select_qrh log record
SelectQrh(R, room, qrh_key, actor) ==
    IF AlreadyUsed(R, qrh_key)
    THEN [ok |-> FALSE, raised |-> FALSE, R |-> R, out |-> <<>>, log |-> <<>>]
    ELSE SelectQrhBody(R, room, qrh_key, actor)

\* one step of the native thread event_alert_in_thread that run_sim_loop started
\* for an event: ai_agent.on_event_alert, run by loop.run_until_complete.  The
\* thread is preempted between its steps: before send_ai_message, at
\* asyncio.sleep(1), inside select_qrh after the duplicate test and where
\* log_action writes the log file, and at the slow model call of
\* _explain_qrh_choice, which yields an explanation or not
event_alert_in_thread(room, event_id, explanation) ==
    /\ room \in DOMAIN sim
    /\ room \in DOMAIN rooms
    /\ event_id \in DOMAIN sim[room].threads
    /\ LET thread == sim[room].threads[event_id]
           R == rooms[room]
           actor == [username |-> "AI " \o R.ai_agent, role |-> R.ai_agent,
                     is_ai |-> TRUE, sid |-> "None"]
           chat == <<Msg("chat_message", "room", room, actor.username)>>
           r == SelectQrhBody(R, room, thread.qrh_key, actor)
           goto(pc) == [sim EXCEPT ![room].threads[event_id].pc = pc]
           exit == [sim EXCEPT ![room].threads = Del(@, event_id)]
       IN  CASE thread.pc = "send_ai_message" ->
                  /\ out' = chat
                  /\ sim' = goto("select_qrh")
                  /\ UNCHANGED <<rooms, hist>>
             [] thread.pc = "select_qrh" ->
                  /\ out' = <<>>
                  /\ sim' = IF AlreadyUsed(R, thread.qrh_key) THEN goto("explain")
                            ELSE goto("selecting")
                  /\ UNCHANGED <<rooms, hist>>
             [] thread.pc = "selecting" ->
                  /\ rooms' = [rooms EXCEPT ![room] = r.R]
                  /\ hist' = [hist EXCEPT ![room] = Logged(@, r.log)]
                  /\ out' = <<>>
                  /\ sim' = IF r.raised THEN exit
                            ELSE IF r.ok THEN goto("emit") ELSE goto("explain")
             [] thread.pc = "emit" ->
                  /\ out' = <<Msg("show_checklist", "room", room, thread.qrh_key),
                              Msg("update_score", "room", room, "")>>
                  /\ sim' = goto("explain")
                  /\ UNCHANGED <<rooms, hist>>
             [] OTHER ->
                  /\ out' = IF explanation THEN chat ELSE <<>>
                  /\ sim' = exit
                  /\ UNCHANGED <<rooms, hist>>
    /\ UNCHANGED <<room_order, subscribed, closed, AI_ENABLED, ai_tasks,
                   ai_pf_running, tts_threads, tts_audio_queue>>

\* the socket handler handle_select; the on_checklist_shown task it starts for an
\* AI agent runs after the handler
handle_select(room, sid, selected_key) ==
    /\ sid \notin closed
    /\ room \in DOMAIN rooms
    /\ sid \in DOMAIN rooms[room].users
    /\ LET user_info == rooms[room].users[sid]
           actor == [username |-> user_info.username, role |-> user_info.role,
                     is_ai |-> FALSE, sid |-> sid]
           r == SelectQrh(rooms[room], room, selected_key, actor)
       IN  /\ rooms' = [rooms EXCEPT ![room] = r.R]
           /\ out' = IF r.ok \/ r.raised THEN r.out
                     ELSE <<Msg("error_msg", "sid", sid, selected_key)>>
           /\ hist' = [hist EXCEPT ![room] = Logged(@, r.log)]
    /\ UNCHANGED <<room_order, subscribed, closed, AI_ENABLED, ai_tasks, sim,
                   ai_pf_running, tts_threads, tts_audio_queue>>

\* GameLogic.check_item
CheckItem(R, room, item_index, actor) ==
    LET R1 == [R EXCEPT !.checked_items = @ \cup {item_index}]
    IN  [R |-> R1,
         out |-> <<Msg("item_checked", "room", room, actor.role)>> \o
                 (IF Cardinality(R1.checked_items) = R1.active_checklist_len
                  THEN <<Msg("checklist_complete", "room", room, R1.current_qrh)>>
                  ELSE <<>>)]

\* the socket handler handle_check
handle_check(room, sid, idx) ==
    /\ sid \notin closed
    /\ room \in DOMAIN rooms
    /\ sid \in DOMAIN rooms[room].users
    /\ LET user_info == rooms[room].users[sid]
           actor == [username |-> user_info.username, role |-> user_info.role,
                     is_ai |-> FALSE, sid |-> sid]
           r == CheckItem(rooms[room], room, idx, actor)
       IN  /\ rooms' = [rooms EXCEPT ![room] = r.R]
           /\ out' = r.out
    /\ UNCHANGED <<room_order, subscribed, closed, AI_ENABLED, ai_tasks, sim, hist,
                   ai_pf_running, tts_threads, tts_audio_queue>>

-----------------------------------------------------------------------------
(* Speech: request_tts, the synthesis threads and the sender loop *)

\* the sentence a blob belongs to
Sentence(data) == [message_id |-> data.message_id, sentence_index |-> data.sentence_index]

\* the payload of tts_audio: message_id and sentence_index
TtsPayload(data) == data.message_id \o "#" \o ToString(data.sentence_index)

\* the socket handler handle_tts_request with submit_tts_request: a native
\* thread is started for the sentence
handle_tts_request(room, message_id, sentence_index) ==
    /\ IF room \notin DOMAIN rooms
       THEN UNCHANGED <<tts_threads, hist>>
       ELSE /\ tts_threads' = Append(tts_threads,
                                     [room |-> room, message_id |-> message_id,
                                      sentence_index |-> sentence_index])
            /\ hist' = [hist EXCEPT ![room].tts_requests =
                          Append(@, [message_id |-> message_id,
                                     sentence_index |-> sentence_index])]
    /\ out' = <<>>
    /\ UNCHANGED <<rooms, room_order, subscribed, closed, AI_ENABLED, ai_tasks, sim,
                   ai_pf_running, tts_audio_queue>>

\* run_in_thread of submit_tts_request ending for the i-th running thread:
\* the synthesis returned audio, returned no audio, or raised
run_in_thread(i, result) ==
    /\ i \in DOMAIN tts_threads
    /\ LET t == tts_threads[i]
       IN  /\ tts_threads' = [j \in 1..(Len(tts_threads) - 1) |->
                                 IF j < i THEN tts_threads[j] ELSE tts_threads[j + 1]]
           /\ tts_audio_queue' =
                 IF result = "error" THEN tts_audio_queue
                 ELSE Append(tts_audio_queue,
                             [room |-> t.room, message_id |-> t.message_id,
                              sentence_index |-> t.sentence_index,
                              audio_bytes |-> result = "audio"])
           /\ hist' = [hist EXCEPT ![t.room].tts_completed =
                         IF result = "audio" THEN Append(@, Sentence(t)) ELSE @]
    /\ out' = <<>>
    /\ UNCHANGED <<rooms, room_order, subscribed, closed, AI_ENABLED, ai_tasks, sim,
                   ai_pf_running>>

\* a queue that hands out its newest item
TtsGet_Newest(q) == [data |-> q[Len(q)], rest |-> SubSeq(q, 1, Len(q) - 1)]

\* _tts_audio_queue.get(): the oldest item
TtsGet(q) == [data |-> Head(q), rest |-> Tail(q)]

\* one iteration of _tts_sender_loop that finds an item in the queue
tts_sender_loop ==
    /\ tts_audio_queue # <<>>
    /\ LET g == TtsGet(tts_audio_queue)
           data == g.data
       IN  /\ tts_audio_queue' = g.rest
           /\ IF ~data.audio_bytes
              THEN /\ out' = <<>>
                   /\ UNCHANGED hist
              ELSE /\ out' = <<Msg("tts_audio", "room", data.room, TtsPayload(data))>>
                   /\ hist' = [hist EXCEPT ![data.room].tts_sent = Append(@, Sentence(data))]
    /\ UNCHANGED <<rooms, room_order, subscribed, closed, AI_ENABLED, ai_tasks, sim,
                   ai_pf_running, tts_threads>>

-----------------------------------------------------------------------------
(* Specifications *)

\* option ids a client sends for a keyword: its options and an unknown id
OptionInputs ==
    [keyword \in DOMAIN PHASE1_THREATS |->
        {PHASE1_THREATS[keyword].options[i].id : i \in 1..3} \cup {"no_such_option"}]

\* the first option of a keyword and an unknown id
FirstOptionInputs ==
    [keyword \in DOMAIN PHASE1_THREATS |->
        {PHASE1_THREATS[keyword].options[1].id, "no_such_option"}]

KeywordInputs == {"24015G25KT", "Landing_Light_U/S"}

\* gauges a client tags: the gauge of an event of each scenario (each is the
\* gauge of no event in the other two scenarios)
GaugeInputs == {"fuel_qty", "oil_p", "ammeter"}

Join(S) == \E room \in RoomIds, sid \in S, username \in Usernames, role \in Roles,
              mode \in Modes : on_join(room, sid, username, role, mode)

JoinDual(sid, role) == \E room \in RoomIds, username \in Usernames :
                          on_join(room, sid, username, role, "dual_player")

JoinAs(sid, role) == \E room \in RoomIds, username \in Usernames, mode \in Modes :
                        on_join(room, sid, username, role, mode)

Disconnect(S) == \E sid \in S : on_disconnect(sid)

\* a PF decision among the first n accepted ones of the room
PfDecision(S, K, Opts, n) ==
    \E room \in RoomIds, sid \in S, keyword \in K :
       \E option_id \in Opts[keyword] :
          /\ Len(hist[room].submitted) < n
          /\ Len(ai_tasks[room]) < MaxTasks
          /\ handle_pf_decision(room, sid, keyword, option_id)

\* a PF decision from a client that decides each keyword once
PfDecisionOnce(S, K, Opts) ==
    \E room \in RoomIds, sid \in S, keyword \in K :
       \E option_id \in Opts[keyword] :
          /\ \A i \in DOMAIN hist[room].submitted : hist[room].submitted[i] # keyword
          /\ handle_pf_decision(room, sid, keyword, option_id)

PmVerify(S) == \E room \in RoomIds, sid \in S, approved \in BOOLEAN :
                  handle_pm_verify(room, sid, approved)

\* a verify task of the AI PM whose slow model gives one of the answers Resp
AiPmVerifyIn(Resp) == \E room \in RoomIds, response \in Resp :
                         on_pm_verify_request(room, response)

\* the two verdicts of the slow model
AiPmVerify == AiPmVerifyIn({"approve", "reject"})

ReqPhase2(S) == \E room \in RoomIds, sid \in S, scenario_key \in DOMAIN MULTI_EVENT_SCENARIOS :
                   handle_req_phase_2(room, sid, scenario_key)

MonitorGauge(S) == \E room \in RoomIds, sid \in S, gauge_id \in GaugeInputs :
                      handle_monitor_gauge(room, sid, gauge_id)

Tick == \E room \in DOMAIN sim :
           \E t \in sim[room].elapsed .. sim[room].elapsed + MaxTickGap : SimTick(room, t)

\* an iteration of the loop that finds the clock advanced
TickAdvance == \E room \in DOMAIN sim :
                  \E t \in sim[room].elapsed + 1 .. sim[room].elapsed + MaxTickGap :
                     SimTick(room, t)

\* keywords a client sends to pf_identify_threat: the threats and an unknown one
IdentifyInputs == DOMAIN PHASE1_THREATS \cup {"no_such_keyword"}

\* a question of the quiz and an unknown one; a wrong and the correct answer
QuestionInputs == {"engine_failure_turn", "no_such_question"}

AnswerInputs == {"a", "b"}

\* checklist keys a client selects: two of the library and an unknown one
ChecklistInputs == {"low_oil_pressure", "fuel_imbalance", "no_such_checklist"}

\* item indexes a client sends: those of a four-item checklist and two outside it
IndexInputs == {-1, 0, 1, 2, 3, 4}

PfIdentify(S) == \E room \in RoomIds, sid \in S, keyword \in IdentifyInputs :
                    handle_pf_identify(room, sid, keyword)

\* a quiz answer from a client that answers each question once
QuizAnswer(S) ==
    \E room \in RoomIds, sid \in S, question_id \in QuestionInputs, answer \in AnswerInputs :
       /\ room \in DOMAIN rooms
       /\ \A i \in DOMAIN rooms[room].phase1_quiz_results :
              rooms[room].phase1_quiz_results[i].question_id # question_id
       /\ handle_quiz_answer(room, sid, question_id, answer)

\* req_phase_2 when random.choice picks among the scenarios of K
ReqPhase2In(S, K) == \E room \in RoomIds, sid \in S, scenario_key \in K :
                        handle_req_phase_2(room, sid, scenario_key)

MonitorGaugeIn(S, G) == \E room \in RoomIds, sid \in S, gauge_id \in G :
                           handle_monitor_gauge(room, sid, gauge_id)

SelectChecklist(S, K) == \E room \in RoomIds, sid \in S, selected_key \in K :
                            handle_select(room, sid, selected_key)

CheckItems(S) == \E room \in RoomIds, sid \in S, idx \in IndexInputs :
                    handle_check(room, sid, idx)

\* the decision queue: a PF client, a PM client, the AI PM of single-player mode
Next == \/ JoinAs("s1", "PF")
        \/ JoinAs("s2", "PM")
        \/ Disconnect({"s1", "s2"})
        \/ PfDecision({"s1", "s2"}, KeywordInputs, FirstOptionInputs, MaxSubmits)
        \/ PmVerify({"s1", "s2"})
        \/ AiPmVerify

Spec == Init /\ [][Next]_vars

\* the scoring of verified decisions: every keyword and option
NextScore == \/ JoinAs("s1", "PF")
             \/ JoinAs("s2", "PM")
             \/ PfDecision({"s1", "s2"}, DOMAIN PHASE1_THREATS, OptionInputs, MaxScored)
             \/ PmVerify({"s1", "s2"})
             \/ AiPmVerify

SpecScore == Init /\ [][NextScore]_vars

\* membership and readiness: three clients
NextLobby == \/ Join(Sids)
             \/ Disconnect(Sids)
             \/ ReqPhase2(Sids)

SpecLobby == Init /\ [][NextLobby]_vars

\* the same with the AI switched off: every join takes the dual-player branch
InitDual == Init /\ ~AI_ENABLED

SpecDual == InitDual /\ [][NextLobby]_vars

\* the simulation loop of a dual-player room
NextSim == \/ JoinDual("s1", "PF")
           \/ JoinDual("s2", "PM")
           \/ ReqPhase2({"s1", "s2"})
           \/ MonitorGauge({"s1"})
           \/ Tick

SpecSim == InitDual /\ [][NextSim]_vars

AlertThread == \E room \in DOMAIN sim : \E event_id \in DOMAIN sim[room].threads :
                  \E explanation \in BOOLEAN :
                     event_alert_in_thread(room, event_id, explanation)

\* Phase 1 with every request a client can send, valid or not
NextValid == \/ JoinAs("s1", "PF")
             \/ JoinAs("s2", "PM")
             \/ PfIdentify({"s1", "s2"})
             \/ PfDecision({"s1", "s2"}, DOMAIN PHASE1_THREATS, OptionInputs, MaxScored)
             \/ PmVerify({"s1", "s2"})
             \/ AiPmVerify

SpecValid == Init /\ [][NextValid]_vars

\* checklists: selection and items, before and after the scenario is chosen
NextQrh == \/ JoinDual("s1", "PF")
           \/ JoinDual("s2", "PM")
           \/ ReqPhase2({"s1", "s2"})
           \/ SelectChecklist({"s1", "s2"}, ChecklistInputs)
           \/ CheckItems({"s1"})

SpecQrh == InitDual /\ [][NextQrh]_vars

\* no scenario has started yet: the clients are still on the briefing screens
Briefing == \A room \in RoomIds : room \notin DOMAIN sim

\* one mission of scenario critical_situation: a briefing with one decision and
\* the gauge tagged or not, then the loop with a checklist selection
NextMission == \/ Briefing /\ JoinDual("s1", "PF")
               \/ Briefing /\ JoinDual("s2", "PM")
               \/ Briefing /\ PfDecision({"s1"}, {"24015G25KT"}, FirstOptionInputs, MaxScored)
               \/ Briefing /\ PmVerify({"s2"})
               \/ Briefing /\ MonitorGaugeIn({"s1"}, {"oil_p"})
               \/ ReqPhase2In({"s1", "s2"}, {"critical_situation"})
               \/ SelectChecklist({"s1"}, {"low_oil_pressure"})
               \/ Tick

SpecMission == InitDual /\ [][NextMission]_vars

\* the same under a scheduler that lets the loop wake up: time.time() has advanced
\* when socketio.sleep(update_interval) returns
SpecMissionFair == SpecMission /\ WF_vars(TickAdvance)

\* every operation that changes score: a briefing with a decision and a quiz
\* answer, then the loop with checklist selections
NextLog == \/ Briefing /\ JoinDual("s1", "PF")
           \/ Briefing /\ JoinDual("s2", "PM")
           \/ Briefing /\ PfDecisionOnce({"s1"}, {"24015G25KT"}, FirstOptionInputs)
           \/ Briefing /\ PmVerify({"s2"})
           \/ Briefing /\ QuizAnswer({"s2"})
           \/ Briefing /\ MonitorGaugeIn({"s1"}, {"oil_p"})
           \/ ReqPhase2In({"s1", "s2"}, {"critical_situation"})
           \/ SelectChecklist({"s1"}, {"low_oil_pressure", "fuel_imbalance"})
           \/ Tick

SpecLog == InitDual /\ [][NextLog]_vars

\* the loop of a room whose users leave
NextAbandon == \/ JoinDual("s1", "PF")
               \/ JoinDual("s2", "PM")
               \/ Disconnect({"s1", "s2"})
               \/ ReqPhase2In({"s1", "s2"}, {"critical_situation"})
               \/ Tick

SpecAbandon == InitDual /\ [][NextAbandon]_vars

\* single-player Phase 1: a human PF and the AI PM
InitAi == Init /\ AI_ENABLED

JoinSolo(sid, role) == \E room \in RoomIds, username \in Usernames :
                          on_join(room, sid, username, role, "single_player")

NextSolo == \/ JoinSolo("s1", "PF")
            \/ PfDecision({"s1"}, KeywordInputs, FirstOptionInputs, MaxSubmits)
            \/ PmVerify({"s1"})
            \/ AiPmVerifyIn(SlowResponses)

SpecSolo == InitAi /\ [][NextSolo]_vars

\* every started verify task gets its answer from the slow model and goes on
SpecSoloFair == SpecSolo /\ WF_vars(AiPmVerifyIn(SlowResponses))

\* the same with a slow model whose every call fails
NextSoloFailing == \/ JoinSolo("s1", "PF")
                   \/ PfDecision({"s1"}, KeywordInputs, OptionInputs, MaxSubmits)
                   \/ AiPmVerifyIn(FailedResponses)

SpecSoloFailing == InitAi /\ [][NextSoloFailing]_vars

\* a single-player flight: the human PF, the loop, and the threads the loop
\* starts for the AI PM at each alert
NextAlert == \/ JoinSolo("s1", "PF")
             \/ ReqPhase2In({"s1"}, {"critical_situation"})
             \/ SelectChecklist({"s1"}, {"low_oil_pressure"})
             \/ TickAdvance
             \/ AlertThread

SpecAlert == InitAi /\ [][NextAlert]_vars

\* single-player Phase 1 with a human PM and the AI PF; a second client may
\* join and identify threats but nobody else submits a decision
AiPfIdentify == \E room \in RoomIds, keyword \in DOMAIN PHASE1_THREATS :
                   \E response \in PfResponses[keyword] :
                      phase1_pf_identify_threats(room, response)

NextAiPf == \/ JoinSolo("s1", "PM")
            \/ JoinAs("s2", "PF")
            \/ AiPfIdentify
            \/ PfIdentify({"s1", "s2"})
            \/ PmVerify({"s1"})
            \/ QuizAnswer({"s1"})
            \/ Disconnect({"s1", "s2"})

SpecAiPf == InitAi /\ [][NextAiPf]_vars

\* speech: the sentences of one message, requested in any order
MessageIds == {"m1"}

SentenceIndexes == {0, 1, 2}

SynthesisResults == {"audio", "empty", "error"}

TtsRequest == \E room \in RoomIds, message_id \in MessageIds,
                 sentence_index \in SentenceIndexes :
                 /\ Len(hist[room].tts_requests) < MaxTts
                 /\ handle_tts_request(room, message_id, sentence_index)

TtsSynthesised == \E i \in 1..MaxTts, result \in SynthesisResults : run_in_thread(i, result)

NextTts == \/ JoinDual("s1", "PF")
           \/ Disconnect({"s1"})
           \/ TtsRequest
           \/ TtsSynthesised
           \/ tts_sender_loop

SpecTts == InitDual /\ [][NextTts]_vars

\* the sender loop runs for ever: an item in the queue is taken
SpecTtsFair == SpecTts /\ WF_vars(tts_sender_loop)

\* a single-player briefing whose human leaves while verify tasks of the AI PM
\* and synthesised sentences are still on their way
TtsRequestOnce == \E room \in RoomIds :
                     /\ hist[room].tts_requests = <<>>
                     /\ handle_tts_request(room, "m1", 0)

NextLeave == \/ JoinSolo("s1", "PF")
             \/ PfDecision({"s1"}, {"24015G25KT"}, FirstOptionInputs, MaxSubmits)
             \/ AiPmVerify
             \/ TtsRequestOnce
             \/ TtsSynthesised
             \/ tts_sender_loop
             \/ Disconnect({"s1"})

SpecLeave == InitAi /\ [][NextLeave]_vars

\* the quiz: every question and an unknown one, answered once each by either client
QuizAnswerIn(S, Q, A) ==
    \E room \in RoomIds, sid \in S, question_id \in Q, answer \in A :
       /\ room \in DOMAIN rooms
       /\ \A i \in DOMAIN rooms[room].phase1_quiz_results :
              rooms[room].phase1_quiz_results[i].question_id # question_id
       /\ handle_quiz_answer(room, sid, question_id, answer)

NextQuiz == \/ JoinDual("s1", "PF")
            \/ JoinDual("s2", "PM")
            \/ QuizAnswerIn({"s1", "s2"}, DOMAIN EMERGENCY_QUIZ \cup {"no_such_question"},
                            AnswerInputs)

SpecQuiz == InitDual /\ [][NextQuiz]_vars

\* seats: joins and departures of three clients, with and without the AI
\* the phases of a dual-player room: clients join and leave, ask for Phase 2 and
\* select a checklist, in any order
NextPhase == \/ \E sid \in Sids, role \in Roles : JoinDual(sid, role)
             \/ Disconnect(Sids)
             \/ ReqPhase2In(Sids, {"critical_situation"})
             \/ SelectChecklist(Sids, {"low_oil_pressure"})

SpecPhase == InitDual /\ [][NextPhase]_vars

NextSeats == \/ Join(Sids)
             \/ Disconnect(Sids)

SpecSeats == Init /\ [][NextSeats]_vars

\* two room names, for clients that send join more than once
TwoRooms == RoomIds \cup {"r2"}

\* dual-player seats in two rooms: any client joins either room, any client leaves
NextRooms == \/ \E room \in TwoRooms, sid \in Sids, username \in Usernames, role \in Roles :
                   on_join(room, sid, username, role, "dual_player")
             \/ Disconnect(Sids)

SpecRooms == InitDual /\ [][NextRooms]_vars

-----------------------------------------------------------------------------
(* Properties of the decision queue *)

IsPrefix(p, q) == Len(p) <= Len(q) /\ \A i \in 1..Len(p) : p[i] = q[i]

\* the number of decisions that have been promoted to pending_decision so far
Promoted(r) ==
    Len(hist[r].verified) + (IF rooms[r].pending_decision = NoDecision THEN 0 ELSE 1)

\* C1: decisions are verified in submission order: the keywords resolved by the
\* successful verifications are, in order, the keywords of the first accepted
\* submissions, and the pending decision is the next accepted submission.
C1_VerifiedInSubmissionOrder ==
    \A r \in DOMAIN rooms :
        /\ IsPrefix(hist[r].verified, hist[r].submitted)
        /\ \A i \in 1..Len(hist[r].verified) :
              hist[r].verified[i] \in DOMAIN rooms[r].phase1_threats
        /\ rooms[r].pending_decision # NoDecision =>
              /\ Len(hist[r].verified) < Len(hist[r].submitted)
              /\ rooms[r].pending_decision.keyword =
                    hist[r].submitted[Len(hist[r].verified) + 1]

\* three decisions were accepted, the second differs from the third, two are verified
C1_Witness ==
    \E r \in DOMAIN rooms :
        /\ Len(hist[r].submitted) = 3
        /\ hist[r].submitted[2] # hist[r].submitted[3]
        /\ Len(hist[r].verified) = 2
        /\ rooms[r].pending_decision # NoDecision

\* C2: with human clients only (the AI switched off), every decision promoted to
\* pending_decision has produced exactly one show_pm_verify_panel, and the prompts
\* carry the keywords of the accepted submissions in submission order.
C2_OnePromptPerDecision ==
    ~AI_ENABLED =>
        \A r \in DOMAIN rooms :
            /\ Len(hist[r].prompts) = Promoted(r)
            /\ \A i \in 1..Len(hist[r].prompts) :
                  hist[r].prompts[i].arg = hist[r].submitted[i]

\* C3: after every handler, no decision waits in the queue while none is pending.
C3_NoQueuedWhileIdle ==
    \A r \in DOMAIN rooms :
        rooms[r].pending_decision = NoDecision => rooms[r].pending_decisions_queue = <<>>

\* a queue that held decisions behind a pending one has been drained by verifications
C3_Witness ==
    \E r \in DOMAIN rooms :
        /\ Len(hist[r].submitted) = 3
        /\ Len(hist[r].verified) = 3
        /\ rooms[r].pending_decision = NoDecision
        /\ rooms[r].pending_decisions_queue = <<>>

\* C4: a successful verification of the pending decision for keyword k adds the
\* matrix entry of (pf_correct, approved) to score (+15, -5, -20, +5 for the
\* shipped threats), records the outcome under phase1_threats[k] with the result
\* tag of that cell, broadcasts the colour of that cell, and takes the decision
\* out of pending_decision (which then holds the head of the queue, if any).
C4_VerifyScoring ==
    [][\A r \in DOMAIN rooms :
          Len(hist'[r].verified) = Len(hist[r].verified) + 1 =>
             LET pending == rooms[r].pending_decision
                 k == pending.keyword
                 rec == rooms'[r].phase1_threats[k]
                 cell == <<pending.is_correct, rec.pm_approved>>
                 delta == CASE cell = <<TRUE, TRUE>> -> 15
                            [] cell = <<TRUE, FALSE>> -> -5
                            [] cell = <<FALSE, TRUE>> -> -20
                            [] cell = <<FALSE, FALSE>> -> 5
                 tag == CASE cell = <<TRUE, TRUE>> -> "success"
                          [] cell = <<TRUE, FALSE>> -> "pm_error"
                          [] cell = <<FALSE, TRUE>> -> "critical_error"
                          [] cell = <<FALSE, FALSE>> -> "pm_catch"
                 colour == CASE cell = <<TRUE, TRUE>> -> "green"
                             [] cell = <<TRUE, FALSE>> -> "orange"
                             [] cell = <<FALSE, TRUE>> -> "red"
                             [] cell = <<FALSE, FALSE>> -> "yellow"
             IN  /\ pending # NoDecision
                 /\ delta = PHASE1_THREATS[k].scores[
                       CASE cell = <<TRUE, TRUE>> -> "pf_correct_pm_approve"
                         [] cell = <<TRUE, FALSE>> -> "pf_correct_pm_reject"
                         [] cell = <<FALSE, TRUE>> -> "pf_wrong_pm_approve"
                         [] cell = <<FALSE, FALSE>> -> "pf_wrong_pm_reject"]
                 /\ rooms'[r].score = rooms[r].score + delta
                 /\ rec = [pf_decision |-> pending.option_id, pf_correct |-> pending.is_correct,
                           pm_approved |-> rec.pm_approved, result |-> tag,
                           score_change |-> delta]
                 /\ out'[1] = Msg("threat_decision_result", "room", r, colour)
                 /\ rooms'[r].pending_decision =
                       IF rooms[r].pending_decisions_queue = <<>> THEN NoDecision
                       ELSE Head(rooms[r].pending_decisions_queue)]_vars

\* a wrong decision for Recovering_from_Cold was approved: critical_error, -20
C4_Witness ==
    \E r \in DOMAIN rooms :
        /\ "Recovering_from_Cold" \in DOMAIN rooms[r].phase1_threats
        /\ rooms[r].phase1_threats["Recovering_from_Cold"].result = "critical_error"
        /\ rooms[r].score = -20
        /\ out # <<>> /\ out[1].arg = "red"
-----------------------------------------------------------------------------
(* Properties of the simulation loop *)

CreditsOf(r, id) == SelectSeq(hist[r].credits, LAMBDA c : c.event = id)

RECURSIVE SumDeltas(_)
SumDeltas(cs) == IF cs = <<>> THEN 0 ELSE Head(cs).delta + SumDeltas(Tail(cs))

\* C5: each event of the running scenario is credited exactly once and never twice:
\* with detection_score if some tick with precursor_start <= t < alert_start found
\* its gauge tagged, otherwise with reaction_score on the first tick with
\* t >= alert_start; nothing before, nothing more, and the score is the sum.
C5_CreditedOnce ==
    \A r \in DOMAIN sim :
        /\ rooms[r].score = SumDeltas(hist[r].credits)
        /\ \A e \in Range(EventsOf(rooms[r])) :
              LET cs == CreditsOf(r, e.id)
              IN  IF e.id \in hist[r].prec_seen
                  THEN /\ Len(cs) = 1
                       /\ cs[1].kind = "precursor"
                       /\ cs[1].delta = e.detection_score
                       /\ e.precursor_start <= cs[1].t /\ cs[1].t < e.alert_start
                  ELSE IF e.id \in DOMAIN hist[r].alert_seen
                  THEN /\ Len(cs) = 1
                       /\ cs[1].kind = "alert"
                       /\ cs[1].delta = e.reaction_score
                       /\ cs[1].t = hist[r].alert_seen[e.id]
                  ELSE cs = <<>>

\* the loop has finished a scenario in which one event was caught at its precursor
\* (its alert fired later) and another only at its alert
C5_Witness ==
    \E r \in DOMAIN sim :
        /\ sim[r].done
        /\ \E e1, e2 \in Range(EventsOf(rooms[r])) :
              /\ e1.id \in hist[r].prec_seen
              /\ e1.id \in sim[r].event_alerted
              /\ e2.id \notin hist[r].prec_seen
              /\ e2.id \in sim[r].event_alerted
        /\ rooms[r].score = 25

\* C6: an entry of event_detections, once written, is never removed or changed,
\* and when the loop ends every event of the scenario has its entry.
C6_DetectionWrittenOnce ==
    /\ [][\A r \in DOMAIN rooms :
             \A id \in DOMAIN rooms[r].event_detections :
                /\ r \in DOMAIN rooms'
                /\ id \in DOMAIN rooms'[r].event_detections
                /\ rooms'[r].event_detections[id] = rooms[r].event_detections[id]]_vars
    /\ [](\A r \in DOMAIN sim :
             sim[r].done =>
                DOMAIN rooms[r].event_detections = {e.id : e \in Range(EventsOf(rooms[r]))})

\* a detection written at the precursor is still there, unchanged in kind, after
\* the alert of its event has fired, the gauge being tagged all along
C6_Witness ==
    \E r \in DOMAIN sim :
        \E e \in Range(EventsOf(rooms[r])) :
            /\ e.id \in DOMAIN rooms[r].event_detections
            /\ rooms[r].event_detections[e.id].detected_at = "precursor"
            /\ rooms[r].event_detections[e.id].timestamp < sim[r].elapsed
            /\ e.id \in sim[r].event_alerted
            /\ e.gauge \in rooms[r].monitored_gauges
-----------------------------------------------------------------------------
(* Properties of room membership and readiness *)

\* C7: every room has at most 2 entries in users.
C7_AtMostTwoUsers ==
    \A r \in DOMAIN rooms : Cardinality(DOMAIN rooms[r].users) <= 2

\* C8: no two users of a room hold the same role, and every role is PF or PM.
C8_DistinctRoles ==
    \A r \in DOMAIN rooms :
        /\ \A u \in DOMAIN rooms[r].users : rooms[r].users[u].role \in {"PF", "PM"}
        /\ \A u, v \in DOMAIN rooms[r].users :
              u # v => rooms[r].users[u].role # rooms[r].users[v].role

\* the handler that ran last was on_join for room r
JoinAnswered(r) ==
    \E i \in 1..Len(out) :
        \/ out[i].ev = "room_full" /\ out[i].arg = r
        \/ out[i].ev = "user_count_update" /\ out[i].to = r

\* C9: a join to a room that already holds 2 users is answered with room_full to
\* the requester only and leaves the room's state unchanged.
C9_FullRoomJoinRejected ==
    [][\A r \in DOMAIN rooms :
          (Cardinality(DOMAIN rooms[r].users) >= 2 /\ JoinAnswered(r)') =>
             /\ \E sid \in Sids : out' = <<Msg("room_full", "sid", sid, r)>>
             /\ rooms'[r] = rooms[r]]_vars

\* C10: the simulation is launched (and the room enters phase2) only by a step
\* after which every human seated in the room is in ready_for_next.
C10_LaunchOnlyWhenAllReady ==
    [][\A r \in DOMAIN rooms :
          (~rooms[r].sim_active /\ rooms'[r].sim_active) =>
             \A u \in DOMAIN rooms'[r].users :
                rooms'[r].users[u].is_ai \/ u \in rooms'[r].ready_for_next]_vars

-----------------------------------------------------------------------------
(* Properties of the mission's end *)

\* the mission_complete messages among msgs that are broadcast to room r
MissionCompleteIn(msgs, r) ==
    SelectSeq(msgs, LAMBDA m : m.ev = "mission_complete" /\ m.scope = "room" /\ m.to = r)

\* C11: once Phase 2 has started the loop eventually ends; it ends only at
\* t >= duration, with exactly one mission_complete broadcast whose result is
\* Passed if and only if the score at that moment exceeds 40; after that the
\* loop performs no tick.
C11_MissionCompletesOnce ==
    /\ \A r \in RoomIds : (r \in DOMAIN sim) ~> (r \in DOMAIN sim /\ sim[r].done)
    /\ [](\A r \in DOMAIN sim :
            LET duration == MULTI_EVENT_SCENARIOS[rooms[r].current_scenario].duration
            IN  /\ sim[r].done <=> sim[r].elapsed >= duration
                /\ Len(hist[r].missions) = (IF sim[r].done THEN 1 ELSE 0)
                /\ \A i \in 1..Len(hist[r].missions) :
                      hist[r].missions[i].result =
                         (IF hist[r].missions[i].score > 40 THEN "Passed"
                          ELSE "Debrief Required"))
    /\ [][\A r \in DOMAIN sim :
            /\ sim[r].done =>
                  /\ r \in DOMAIN sim' /\ sim'[r] = sim[r]
                  /\ hist'[r].missions = hist[r].missions
                  /\ hist'[r].credits = hist[r].credits
                  /\ rooms'[r].gauge_states = rooms[r].gauge_states
                  /\ MissionCompleteIn(out', r) = <<>>
            /\ (~sim[r].done /\ sim'[r].done) =>
                  /\ hist'[r].missions = <<[score |-> rooms[r].score,
                                            result |-> IF rooms[r].score > 40 THEN "Passed"
                                                       ELSE "Debrief Required"]>>
                  /\ MissionCompleteIn(out', r) =
                        <<Msg("mission_complete", "room", r, hist'[r].missions[1].result)>>]_vars

\* a mission has ended with a score of exactly 40 and the result Debrief Required
C11_Witness ==
    \E r \in DOMAIN sim :
        /\ sim[r].done
        /\ hist[r].missions = <<[score |-> 40, result |-> "Debrief Required"]>>

-----------------------------------------------------------------------------
(* Properties of the checklists *)

\* C12: a select_checklist for a key already in used_qrh is answered with
\* error_msg to the caller only and leaves the whole room (current_qrh, used_qrh,
\* checked_items, phase, score and the rest) unchanged.
C12_DuplicateChecklistRejected ==
    [][\A room \in DOMAIN rooms, sid \in Sids, key \in ChecklistInputs :
          (key \in rooms[room].used_qrh /\ handle_select(room, sid, key)) =>
             /\ out' = <<Msg("error_msg", "sid", sid, key)>>
             /\ rooms'[room] = rooms[room]
             /\ hist'[room] = hist[room]]_vars

\* a checklist in use, with an item checked, has just been selected again and refused
C12_Witness ==
    \E room \in DOMAIN rooms, sid \in Sids :
        /\ rooms[room].current_qrh = "low_oil_pressure"
        /\ rooms[room].checked_items # {}
        /\ rooms[room].score = 20
        /\ out = <<Msg("error_msg", "sid", sid, "low_oil_pressure")>>

\* C13: a select_checklist for a checklist not yet in used_qrh adds it to
\* used_qrh, makes it current_qrh, empties checked_items, sets
\* active_checklist_len to its length and changes score by +20 if the current
\* scenario accepts it and by -20 otherwise.
C13_SelectAppliesChecklist ==
    [][\A room \in DOMAIN rooms, sid \in Sids, key \in ChecklistInputs \cap DOMAIN QRH_LIBRARY :
          (key \notin rooms[room].used_qrh /\ handle_select(room, sid, key)) =>
             LET scenario == rooms[room].current_scenario
                 accepted == /\ scenario # "None"
                             /\ key \in MULTI_EVENT_SCENARIOS[scenario].acceptable_qrh
             IN  /\ rooms'[room].used_qrh = rooms[room].used_qrh \cup {key}
                 /\ rooms'[room].current_qrh = key
                 /\ rooms'[room].checked_items = {}
                 /\ rooms'[room].active_checklist_len = QRH_LIBRARY[key]
                 /\ rooms'[room].score - rooms[room].score =
                       (IF accepted THEN 20 ELSE -20)]_vars

\* C14: a check_item with an index outside 0..active_checklist_len-1 leaves
\* checked_items unchanged.
C14_OutOfRangeItemRejected ==
    [][\A room \in DOMAIN rooms, sid \in Sids, idx \in IndexInputs :
          (/\ idx \notin 0..(rooms[room].active_checklist_len - 1)
           /\ handle_check(room, sid, idx)) =>
             rooms'[room].checked_items = rooms[room].checked_items]_vars

-----------------------------------------------------------------------------
(* Properties of the log *)

\* C15: in every state the score of a room is the sum of the score deltas
\* written to its log; every step that changes the score writes exactly one
\* record carrying that change, and a step that leaves the score unchanged
\* writes no record carrying a delta.
C15_ScoreIsSumOfLoggedDeltas ==
    /\ [](\A r \in DOMAIN rooms : rooms[r].score = hist[r].log_sum)
    /\ [][\A r \in DOMAIN rooms :
            IF rooms'[r].score # rooms[r].score
            THEN /\ hist'[r].log_n = hist[r].log_n + 1
                 /\ hist'[r].log_sum - hist[r].log_sum = rooms'[r].score - rooms[r].score
            ELSE /\ hist'[r].log_n = hist[r].log_n
                 /\ hist'[r].log_sum = hist[r].log_sum]_vars

\* a verification, a quiz answer, a right and a wrong checklist and a precursor
\* detection have all changed the score
C15_Witness ==
    \E r \in DOMAIN rooms :
        /\ hist[r].verified # <<>>
        /\ rooms[r].phase1_quiz_results # <<>>
        /\ rooms[r].used_qrh = {"low_oil_pressure", "fuel_imbalance"}
        /\ \E e \in DOMAIN rooms[r].event_detections :
              rooms[r].event_detections[e].detected_at = "precursor"
        /\ hist[r].log_n = 5
        /\ rooms[r].score # 0

-----------------------------------------------------------------------------
(* Properties of rejected Phase-1 requests *)

\* score, resolved threats, pending decision and queue of the room are kept by the step
Phase1Kept(room) ==
    /\ rooms'[room].score = rooms[room].score
    /\ rooms'[room].phase1_threats = rooms[room].phase1_threats
    /\ rooms'[room].pending_decision = rooms[room].pending_decision
    /\ rooms'[room].pending_decisions_queue = rooms[room].pending_decisions_queue

\* the keyword has an option with this id
HasOption(keyword, option_id) ==
    \E i \in DOMAIN PHASE1_THREATS[keyword].options :
        PHASE1_THREATS[keyword].options[i].id = option_id

\* C16: a Phase-1 request that fails validation (identify or submit by a user
\* who is not PF, identify of an unknown or already resolved keyword, submit of
\* an option id the keyword does not have, verify by a user who is not PM or
\* with no pending decision) leaves the score, the resolved threats, the
\* pending decision and the queue of the room unchanged.
C16_RejectedRequestChangesNothing ==
    [][\A room \in DOMAIN rooms : \A sid \in DOMAIN rooms[room].users :
          LET role == rooms[room].users[sid].role
          IN  /\ \A keyword \in IdentifyInputs :
                    ( /\ \/ role # "PF"
                         \/ keyword \notin DOMAIN PHASE1_THREATS
                         \/ keyword \in DOMAIN rooms[room].phase1_threats
                      /\ handle_pf_identify(room, sid, keyword) )
                    => Phase1Kept(room)
              /\ \A keyword \in DOMAIN PHASE1_THREATS :
                    \A option_id \in OptionInputs[keyword] :
                       ( /\ role # "PF" \/ ~HasOption(keyword, option_id)
                         /\ handle_pf_decision(room, sid, keyword, option_id) )
                       => Phase1Kept(room)
              /\ \A approved \in BOOLEAN :
                    ( /\ role # "PM" \/ rooms[room].pending_decision = NoDecision
                      /\ handle_pm_verify(room, sid, approved) )
                    => Phase1Kept(room)]_vars

\* the PF has just been refused an identification in a room that has a
\* resolved threat and a score
C16_Witness ==
    \E r \in DOMAIN rooms : \E s \in DOMAIN rooms[r].users :
        /\ rooms[r].users[s].role = "PF"
        /\ out = <<Msg("error_msg", "sid", s, "")>>
        /\ DOMAIN rooms[r].phase1_threats # {}
        /\ rooms[r].score # 0

\* the step delivers an error_msg to the caller
ErrorDelivered(sid) ==
    \E i \in DOMAIN out' : out'[i].ev = "error_msg" /\ out'[i].scope = "sid" /\ out'[i].to = sid

\* C17: every Phase-1 request that is rejected for a validation error (as in
\* C16) results in an error_msg delivered to the caller.
C17_RejectedRequestGetsError ==
    [][\A room \in DOMAIN rooms : \A sid \in DOMAIN rooms[room].users :
          LET role == rooms[room].users[sid].role
          IN  /\ \A keyword \in IdentifyInputs :
                    ( /\ \/ role # "PF"
                         \/ keyword \notin DOMAIN PHASE1_THREATS
                         \/ keyword \in DOMAIN rooms[room].phase1_threats
                      /\ handle_pf_identify(room, sid, keyword) )
                    => ErrorDelivered(sid)
              /\ \A keyword \in DOMAIN PHASE1_THREATS :
                    \A option_id \in OptionInputs[keyword] :
                       ( /\ role # "PF" \/ ~HasOption(keyword, option_id)
                         /\ handle_pf_decision(room, sid, keyword, option_id) )
                       => ErrorDelivered(sid)
              /\ \A approved \in BOOLEAN :
                    ( /\ role # "PM" \/ rooms[room].pending_decision = NoDecision
                      /\ handle_pm_verify(room, sid, approved) )
                    => ErrorDelivered(sid)]_vars

-----------------------------------------------------------------------------
(* Properties of disconnection *)

\* C18: a room is destroyed when its last user disconnects, so that a room
\* that exists has a user and a join after the last disconnect finds no room.
C18_EmptyRoomDestroyed ==
    \A r \in DOMAIN rooms : DOMAIN rooms[r].users # {}

\* C19: when the last user has disconnected while the simulation loop of the
\* room runs, the loop is cancelled at its next suspension point: it makes no
\* further iteration in a room without users.
C19_LoopCancelledWhenRoomEmpty ==
    [][\A r \in DOMAIN sim :
          (r \in DOMAIN rooms /\ DOMAIN rooms[r].users = {}) => sim'[r] = sim[r]]_vars

\* C20: disconnecting frees the seat: the join to a room that follows the
\* disconnect of a user holding role R from that room, asking for role R, is
\* not answered with room_full and seats the new client with role R.
C20_DisconnectFreesSeat ==
    [][\A room \in RoomIds, sid \in Sids, username \in Usernames, role \in Roles,
         mode \in Modes :
          ( /\ out = <<Msg("user_left", "room", room, role)>>
            /\ on_join(room, sid, username, role, mode) )
          => /\ \A i \in DOMAIN out' : out'[i].ev # "room_full"
             /\ sid \in DOMAIN rooms'[room].users
             /\ rooms'[room].users[sid].role = role]_vars

-----------------------------------------------------------------------------
(* Properties of the AI partner *)

ResultsIn(msgs) == SelectSeq(msgs, LAMBDA m : m.ev = "threat_decision_result")

C23_AiPfSubmitsForIdentifiedThreat ==
    \A r \in DOMAIN rooms :
        ~ai_pf_running[r] =>
            \A k \in hist[r].ai_identified :
                \E i \in DOMAIN hist[r].submitted : hist[r].submitted[i] = k

-----------------------------------------------------------------------------
(* Properties of speech *)

TtsAudioIn(msgs) == SelectSeq(msgs, LAMBDA m : m.ev = "tts_audio")

-----------------------------------------------------------------------------
(* Properties of the quiz *)

\* the answer is the id of an option of the question that is flagged correct
IsRightAnswer(question_id, answer) ==
    \E i \in DOMAIN EMERGENCY_QUIZ[question_id] :
        /\ EMERGENCY_QUIZ[question_id][i].id = answer
        /\ EMERGENCY_QUIZ[question_id][i].correct

\* C25: a quiz answer by a PM for a known question changes the score by +10
\* when the chosen option is the correct one and by -5 otherwise, and appends
\* one record to the quiz results; by another role or for an unknown question
\* it changes neither the score nor the quiz results.
C25_QuizScoring ==
    [][\A room \in DOMAIN rooms : \A sid \in DOMAIN rooms[room].users :
          \A question_id \in DOMAIN EMERGENCY_QUIZ \cup {"no_such_question"} :
             \A answer \in AnswerInputs :
                handle_quiz_answer(room, sid, question_id, answer) =>
                   LET R == rooms[room]
                       Q == rooms'[room]
                   IN  IF R.users[sid].role = "PM" /\ question_id \in DOMAIN EMERGENCY_QUIZ
                       THEN /\ Q.score - R.score =
                                  (IF IsRightAnswer(question_id, answer) THEN 10 ELSE -5)
                            /\ Len(Q.phase1_quiz_results) = Len(R.phase1_quiz_results) + 1
                            /\ IsPrefix(R.phase1_quiz_results, Q.phase1_quiz_results)
                            /\ Q.phase1_quiz_results[Len(Q.phase1_quiz_results)].question_id
                                  = question_id
                       ELSE /\ Q.score = R.score
                            /\ Q.phase1_quiz_results = R.phase1_quiz_results]_vars

\* the PM has answered one question rightly and one wrongly
C25_Witness ==
    \E r \in DOMAIN rooms :
        /\ Len(rooms[r].phase1_quiz_results) = 2
        /\ rooms[r].phase1_quiz_results[1].correct
        /\ ~rooms[r].phase1_quiz_results[2].correct
        /\ rooms[r].score = 5

-----------------------------------------------------------------------------
(* Properties of gauge tagging *)

\* C26: monitor_gauge is idempotent on the room: a call for a gauge that is
\* already tagged changes nothing in the room, a first call changes only
\* monitored_gauges (not the score, not event_detections), and no event is
\* credited a second detection however often its gauge is tagged.
C26_MonitorGaugeIdempotent ==
    /\ [][\A room \in DOMAIN rooms : \A sid \in DOMAIN rooms[room].users :
            \A gauge_id \in GaugeInputs :
               handle_monitor_gauge(room, sid, gauge_id) =>
                  /\ rooms'[room] = [rooms[room] EXCEPT !.monitored_gauges = @ \cup {gauge_id}]
                  /\ gauge_id \in rooms[room].monitored_gauges => rooms' = rooms
                  /\ sim' = sim]_vars
    /\ [](\A r \in DOMAIN sim : \A e \in Range(EventsOf(rooms[r])) :
            Len(SelectSeq(CreditsOf(r, e.id), LAMBDA c : c.kind = "precursor")) <= 1)

\* the gauge of an event has just been tagged again after the event was
\* detected at its precursor, and the event has its one credit
C26_Witness ==
    \E r \in DOMAIN sim : \E e \in Range(EventsOf(rooms[r])) :
        /\ e.id \in DOMAIN rooms[r].event_detections
        /\ rooms[r].event_detections[e.id].detected_at = "precursor"
        /\ out = <<Msg("gauge_monitored", "room", r, e.gauge)>>
        /\ Len(CreditsOf(r, e.id)) = 1
        /\ rooms[r].score = e.detection_score

-----------------------------------------------------------------------------
(* Properties of the event notifications of the simulation loop *)

CountOf(msgs, m) == Cardinality({i \in DOMAIN msgs : msgs[i] = m})

\* C28: for each event of the scenario, a tick broadcasts event_trigger exactly when
\* it is the first tick with alert_start <= t < event_end, and broadcasts the
\* "stabilized" sys_msg exactly when it is the first tick with t >= event_end, each
\* once; an event whose stabilized message was sent had its event_trigger sent before
C28_EventNotificationsOnce ==
    /\ [](\A room \in DOMAIN sim : \A event \in Range(EventsOf(rooms[room])) :
             event.id \in sim[room].event_ended_notified
                => event.id \in sim[room].event_alerted)
    /\ [][\A room \in DOMAIN sim : \A t \in {sim'[room].elapsed} :
            SimTick(room, t) =>
              \A event \in Range(EventsOf(rooms[room])) :
                 LET first_in_band == /\ event.alert_start <= t /\ t < event.event_end
                                      /\ sim[room].elapsed < event.alert_start
                     first_after == /\ t >= event.event_end
                                    /\ sim[room].elapsed < event.event_end
                 IN  /\ CountOf(out', Msg("event_trigger", "room", room, event.alert_type))
                           = IF first_in_band THEN 1 ELSE 0
                     /\ CountOf(out', Msg("sys_msg", "room", room, event.id))
                           = IF first_after THEN 1 ELSE 0
                     /\ first_in_band => event.id \notin sim[room].event_alerted
                     /\ first_after => event.id \notin sim[room].event_ended_notified
                     /\ event.id \in sim[room].event_alerted
                           => event.id \in sim'[room].event_alerted
                     /\ event.id \in sim[room].event_ended_notified
                           => event.id \in sim'[room].event_ended_notified]_vars

\* the loop has just told the room that an event it had alerted is stabilized
C28_Witness ==
    \E room \in DOMAIN sim : \E event \in Range(EventsOf(rooms[room])) :
       /\ event.id \in sim[room].event_alerted
       /\ event.id \in sim[room].event_ended_notified
       /\ CountOf(out, Msg("sys_msg", "room", room, event.id)) = 1
       /\ sim[room].elapsed >= event.event_end

\* C29: on every tick of the simulation loop the fuel quantities of flight_update
\* are not greater than those of the tick before, inside and outside the fuel
\* event's precursor and alert bands
C29_FuelNeverRises ==
    [][\A room \in DOMAIN sim : \A t \in {sim'[room].elapsed} :
          (t < MULTI_EVENT_SCENARIOS[rooms[room].current_scenario].duration
             /\ SimTick(room, t))
          => /\ FlightData(rooms'[room]).fuel_qty_left
                  <= FlightData(rooms[room]).fuel_qty_left
             /\ FlightData(rooms'[room]).fuel_qty_right
                  <= FlightData(rooms[room]).fuel_qty_right]_vars

-----------------------------------------------------------------------------
(* Properties of the threads of control *)

\* a native alert thread of the room is inside GameLogic.select_qrh
InSelectQrh(room) ==
    /\ room \in DOMAIN sim
    /\ \E e \in DOMAIN sim[room].threads :
          sim[room].threads[e].pc \in {"selecting", "emit"}

\* C27: the operations on one room are serialized: while the AI agent is inside
\* select_qrh for the room, no tick of the simulation loop and no other operation
\* on the room runs until that select_qrh has returned
C27_RoomOperationsSerialized ==
    [][\A room \in RoomIds :
          InSelectQrh(room) =>
             \/ \E e \in DOMAIN sim[room].threads :
                   /\ sim[room].threads[e].pc \in {"selecting", "emit"}
                   /\ \/ e \notin DOMAIN sim'[room].threads
                      \/ sim'[room].threads[e].pc # sim[room].threads[e].pc
             \/ /\ rooms'[room] = rooms[room]
                /\ sim'[room].elapsed = sim[room].elapsed]_vars

-----------------------------------------------------------------------------
(* Properties of the work left behind by a disconnect *)

\* the clients of the room that are not the AI agent
Humans(R) == {sid \in DOMAIN R.users : ~R.users[sid].is_ai}

BroadcastsTo(msgs, room) ==
    {i \in DOMAIN msgs : msgs[i].scope = "room" /\ msgs[i].to = room}

\* C30: once the last human user of a room has disconnected, an AI verify task
\* of the room that completes leaves the room's state as it was and broadcasts
\* nothing, and a synthesised sentence queued for the room is not broadcast
C30_AbandonedAfterLastDisconnect ==
    [][\A room \in DOMAIN rooms :
          Humans(rooms[room]) = {} =>
             /\ Len(ai_tasks'[room]) < Len(ai_tasks[room])
                   => /\ rooms'[room] = rooms[room]
                      /\ BroadcastsTo(out', room) = {}
             /\ Len(tts_audio_queue') < Len(tts_audio_queue)
                   => BroadcastsTo(out', room) = {}]_vars

-----------------------------------------------------------------------------
(* Properties of the decisions in flight *)

\* the keywords of the decisions the room still holds: the pending one, then the queue
HeldKeywords(R) ==
    (IF R.pending_decision = NoDecision THEN <<>> ELSE <<R.pending_decision.keyword>>)
       \o [i \in DOMAIN R.pending_decisions_queue |-> R.pending_decisions_queue[i].keyword]

\* C31: no accepted decision is lost or verified twice: the accepted decisions
\* are, in order, the verified ones, then the pending one, then the queued ones;
\* and a pending decision is replaced only by the step that verifies it
C31_NoDecisionLost ==
    /\ [](\A r \in DOMAIN rooms :
             hist[r].submitted = hist[r].verified \o HeldKeywords(rooms[r]))
    /\ [][\A r \in DOMAIN rooms :
             (rooms[r].pending_decision # NoDecision
                /\ rooms'[r].pending_decision # rooms[r].pending_decision)
             => hist'[r].verified
                   = Append(hist[r].verified, rooms[r].pending_decision.keyword)]_vars

\* a decision was verified while another one is pending and a third one is queued
C31_Witness ==
    \E r \in DOMAIN rooms :
       /\ Len(hist[r].verified) = 1
       /\ rooms[r].pending_decision # NoDecision
       /\ Len(rooms[r].pending_decisions_queue) = 1
       /\ rooms[r].pending_decisions_queue[1].keyword # rooms[r].pending_decision.keyword

\* C32: the verdict an AI PM task computed from the data of a decision is applied
\* to that decision: a task that completes with a verification was started with
\* the keyword and the option of the decision it verifies
C32_VerdictAppliedToOwnDecision ==
    [][\A r \in DOMAIN rooms :
          (Len(ai_tasks'[r]) < Len(ai_tasks[r])
             /\ Len(hist'[r].verified) > Len(hist[r].verified))
          => \E i \in DOMAIN ai_tasks[r] :
                /\ ai_tasks'[r] = RemoveAt(ai_tasks[r], i)
                /\ ai_tasks[r][i] = PmData(rooms[r].pending_decision.keyword,
                                           rooms[r].pending_decision.option_id)]_vars

\* C33: a threat keyword is scored at most once per room: no keyword is resolved
\* by two verifications
C33_KeywordScoredOnce ==
    \A r \in DOMAIN rooms :
       \A i, j \in DOMAIN hist[r].verified :
          i # j => hist[r].verified[i] # hist[r].verified[j]

-----------------------------------------------------------------------------
(* Properties of the phases *)

PhaseRank(current_phase) ==
    CASE current_phase = "waiting" -> 0
      [] current_phase = "phase1" -> 1
      [] current_phase = "phase2" -> 2
      [] current_phase = "phase3" -> 3

\* C34: the phase of a room never moves backwards along waiting, phase1, phase2,
\* phase3, and phase3 is entered only from phase2
C34_PhaseNeverMovesBack ==
    [][\A r \in DOMAIN rooms :
          /\ PhaseRank(rooms'[r].current_phase) >= PhaseRank(rooms[r].current_phase)
          /\ (rooms'[r].current_phase = "phase3" /\ rooms[r].current_phase # "phase3")
                => rooms[r].current_phase = "phase2"]_vars

\* C35: start_phase_1 is broadcast to a room once in its lifetime: a step
\* broadcasts it at most once, and only to a room that was still waiting
C35_StartPhase1Once ==
    [][\A r \in RoomIds :
          LET n == CountOf(out', Msg("start_phase_1", "room", r, ""))
          IN  /\ n <= 1
              /\ n >= 1 => (r \notin DOMAIN rooms \/ rooms[r].current_phase = "waiting")]_vars

-----------------------------------------------------------------------------
(* Properties of checklist selection *)

\* C36: when the human's select_checklist and the AI's alert-triggered select_qrh
\* name the same checklist at the same time, exactly one of them succeeds and the
\* +20 / -20 is applied once: whichever of the two calls changes the score does
\* so for a checklist that is not in used_qrh at that moment
C36_SameChecklistScoredOnce ==
    [][\A r \in DOMAIN rooms :
          /\ \A sid \in Sids, qrh_key \in DOMAIN QRH_LIBRARY :
                (handle_select(r, sid, qrh_key) /\ rooms'[r].score # rooms[r].score)
                   => qrh_key \notin rooms[r].used_qrh
          /\ r \in DOMAIN sim =>
                \A e \in DOMAIN sim[r].threads :
                   (/\ sim[r].threads[e].pc = "selecting"
                    /\ \E x \in BOOLEAN : event_alert_in_thread(r, e, x)
                    /\ rooms'[r].score # rooms[r].score)
                      => sim[r].threads[e].qrh_key \notin rooms[r].used_qrh]_vars

\* the fields of a room that a checklist selection writes
SelectionFields(R) ==
    <<R.current_phase, R.used_qrh, R.current_qrh, R.checked_items,
      R.active_checklist_len, R.score>>

\* C37: a select_checklist that fails for a reason other than duplication (its
\* id is not in the QRH library, or no Phase-2 scenario has been chosen yet)
\* leaves current_phase, used_qrh, current_qrh, checked_items,
\* active_checklist_len and score unchanged
C37_FailedSelectChangesNothing ==
    [][\A room \in DOMAIN rooms, sid \in Sids, key \in ChecklistInputs :
          (/\ key \notin rooms[room].used_qrh
           /\ \/ key \notin DOMAIN QRH_LIBRARY
              \/ rooms[room].current_scenario = "None"
           /\ handle_select(room, sid, key))
             => SelectionFields(rooms'[room]) = SelectionFields(rooms[room])]_vars

\* every item of the selected checklist has been checked: checklist_complete has
\* been broadcast for the selection
ChecklistDone(R) ==
    /\ R.current_qrh \in DOMAIN QRH_LIBRARY
    /\ Cardinality(R.checked_items) = R.active_checklist_len

\* C38: after a checklist is selected, checklist_complete is broadcast at most
\* once for that selection, whatever check_item calls follow: a check_item on a
\* checklist that is already complete does not broadcast it again
C38_ChecklistCompleteOnce ==
    [][\A room \in DOMAIN rooms, sid \in Sids, idx \in IndexInputs :
          (ChecklistDone(rooms[room]) /\ handle_check(room, sid, idx))
             => CountOf(out', Msg("checklist_complete", "room", room,
                                  rooms[room].current_qrh)) = 0]_vars

-----------------------------------------------------------------------------
(* Properties of membership across rooms *)

\* C39: after a client disconnects, its session handle is absent from the users
\* of every room, including when the client had joined more than one room
C39_DisconnectedInNoRoom ==
    \A sid \in closed : \A r \in DOMAIN rooms : sid \notin DOMAIN rooms[r].users

\* C40: a client answered with room_full is not subscribed to the room, so it
\* receives none of the room-scoped broadcasts that follow: after a join refused
\* with room_full, a client that is not a user of the room is not in the room's
\* socket.io subscription
C40_RoomFullNotSubscribed ==
    [][\A room \in RoomIds, sid \in Sids :
          (/\ CountOf(out', Msg("room_full", "sid", sid, room)) > 0
           /\ sid \notin DOMAIN rooms'[room].users)
             => <<room, sid>> \notin subscribed']_vars

====
